---- MODULE Spec2Model ----
(***************************************************************************)
(* Model of the per-frame exercise analysis engine of NextChamp            *)
(* (src/server/test_services/utils.py, class ExerciseAnalyzer).            *)
(*                                                                         *)
(* One analysis session is modelled: the analyzer object's fields are the  *)
(* variables, and there is one action per call the video pipeline makes    *)
(* (set_exercise_type, process_frame, generate_comprehensive_report).      *)
(* SpecTwo runs two sessions, the variables being the fields of the        *)
(* analyzer at work.                                                       *)
(*                                                                         *)
(* Representation of numbers.  The code computes with floats; the model    *)
(* uses exact fixed-point integers:                                        *)
(*   - angles, alignment scores and deviations are in units of 1/20        *)
(*     (Deg(90) is 90 degrees, Frac20(16) is the alignment score 0.80);    *)
(*   - pixel positions are integers; the broad-jump baseline, a mean of    *)
(*     CALIBRATION_FRAMES positions, is kept as the sum of the positions,  *)
(*     i.e. in units of 1/CALIBRATION_FRAMES pixel;                        *)
(*   - jump distances (percent of the frame width) are kept as numerators  *)
(*     over DistDen;                                                       *)
(*   - time.time() is the variable now, in ticks of half a second;         *)
(*   - a score is a record [num, den] standing for num/den.                *)
(* The pose detector and the angle computation from landmarks are outside  *)
(* the model: a frame is given by the angles and positions the analyzers   *)
(* derive from the landmarks.                                              *)
(***************************************************************************)
EXTENDS Integers, Sequences, FiniteSets, TLC

\* ---------------------------------------------------------------------
\* Units
\* ---------------------------------------------------------------------
Deg(d) == 20 * d
Frac20(n) == n
Sec(s) == 2 * s
None == -1
FrameWidth == 1000

Abs(x) == IF x < 0 THEN -x ELSE x
Max2(a, b) == IF a >= b THEN a ELSE b
Min2(a, b) == IF a <= b THEN a ELSE b

RECURSIVE SeqSum(_)
SeqSum(s) == IF s = << >> THEN 0 ELSE Head(s) + SeqSum(Tail(s))

RECURSIVE SeqMax(_)
SeqMax(s) == IF s = << >> THEN 0 ELSE Max2(Head(s), SeqMax(Tail(s)))

\* ---------------------------------------------------------------------
\* ExerciseType and the form-error keys
\* ---------------------------------------------------------------------
ExerciseType == {"VERTICAL_JUMP", "SHUTTLE_RUN", "SITUPS", "PUSHUPS", "PLANK_HOLD",
                 "STANDING_BROAD_JUMP", "SQUATS", "ENDURANCE_RUN"}
NoExercise == "NONE"

FormErrorKeys == {"knee_alignment", "depth_issues", "torso_lean", "elbow_position",
                  "body_alignment", "landing_form", "takeoff_form", "jump_asymmetry"}

\* ---------------------------------------------------------------------
\* Feedback text.  A feedback text is the sequence of the messages that
\* process_frame joins with " | "; the empty text "" is the empty sequence.
\* A keyword occurs in the joined text iff it occurs in one of the messages
\* (no keyword contains the separator), so the keyword tests of the code
\* are the tables below: the messages of the analyzers that contain one of
\* the keywords of each list, lower-cased.
\* ---------------------------------------------------------------------
\* keywords of calculate_overall_score:
\*   good excellent perfect great nice ready complete drive explode
ScorePositiveMsgs ==
    {"Good depth! Now drive up!", "Drive through your heels!", "Rep complete! Great job!",
     "Excellent form! Keep going strong!", "Great depth! Now push up!", "Good depth! Drive up!",
     "Rep complete! Nice work!", "Perfect form! Keep it up!", "Perfect range of motion!",
     "Good height! Now controlled descent.", "Rep complete! Great work!",
     "Excellent sit-up form! Keep it controlled!",
     "Good preparation! Get ready to explode up!", "Drive up with power!",
     "Great jump! Prepare for landing!", "Jump complete! Nice work!", "Ready for next jump!",
     "Perfect jump form!", "Good preparation! Get ready to explode forward!",
     "Drive forward with maximum power!", "Great jump! Prepare for safe landing!",
     "Good landing form! Absorbing the impact well.",
     "Jump complete! Distance: Excellent", "Jump complete! Distance: Good",
     "Jump complete! Distance: Fair", "Jump complete! Distance: Poor",
     "Jump complete! Distance: Very Poor",
     "Ready for next jump! Best so far", "Ready to jump! Take your time to prepare.",
     "Good form!", "Good hold! Duration", "Perfect form! Now hold the position!",
     "Good running form! Keep the pace up!", "Good turning technique! Quick direction change!",
     "Ready to start shuttle run! Sprint to one side!", "Shuttle run complete! Distance",
     "Sprinting! Drive with your arms!", "Excellent shuttle run form!"}

\* keywords of calculate_rep_quality:
\*   good excellent perfect great nice complete rising controlled engage height
RepPositiveMsgs ==
    {"Good depth! Now drive up!", "Rep complete! Great job!",
     "Excellent form! Keep going strong!", "Great depth! Now push up!",
     "Keep your body straight! Engage your core.", "Good depth! Drive up!",
     "Rep complete! Nice work!", "Perfect form! Keep it up!",
     "Don't lean too far forward. Controlled movement!", "Perfect range of motion!",
     "Rising up... engage your core!", "Good height! Now controlled descent.",
     "Controlled descent... don't drop!", "Rep complete! Great work!",
     "Excellent sit-up form! Keep it controlled!",
     "Good preparation! Get ready to explode up!", "Great jump! Prepare for landing!",
     "Jump complete! Nice work!", "Perfect jump form!",
     "Good preparation! Get ready to explode forward!",
     "Great jump! Prepare for safe landing!",
     "Good landing form! Absorbing the impact well.",
     "Jump complete! Distance: Excellent", "Jump complete! Distance: Good",
     "Jump complete! Distance: Fair", "Jump complete! Distance: Poor",
     "Jump complete! Distance: Very Poor",
     "Good form!", "Good hold! Duration", "Hold the position! Keep core engaged!",
     "Perfect form! Now hold the position!", "Good running form! Keep the pace up!",
     "Good turning technique! Quick direction change!", "Shuttle run complete! Distance",
     "Excellent shuttle run form!"}

\* keywords of generate_comprehensive_report:
\*   good excellent perfect great nice complete
ReportPositiveMsgs ==
    {"Good depth! Now drive up!", "Rep complete! Great job!",
     "Excellent form! Keep going strong!", "Great depth! Now push up!",
     "Good depth! Drive up!", "Rep complete! Nice work!", "Perfect form! Keep it up!",
     "Perfect range of motion!", "Good height! Now controlled descent.",
     "Rep complete! Great work!", "Excellent sit-up form! Keep it controlled!",
     "Good preparation! Get ready to explode up!", "Great jump! Prepare for landing!",
     "Jump complete! Nice work!", "Perfect jump form!",
     "Good preparation! Get ready to explode forward!",
     "Great jump! Prepare for safe landing!",
     "Good landing form! Absorbing the impact well.",
     "Jump complete! Distance: Excellent", "Jump complete! Distance: Good",
     "Jump complete! Distance: Fair", "Jump complete! Distance: Poor",
     "Jump complete! Distance: Very Poor",
     "Good form!", "Good hold! Duration", "Perfect form! Now hold the position!",
     "Good running form! Keep the pace up!",
     "Good turning technique! Quick direction change!", "Shuttle run complete! Distance",
     "Excellent shuttle run form!"}

HasKeyword(fb, msgs) == \E i \in 1..Len(fb) : fb[i] \in msgs

\* feedback_text = " | ".join(feedback_list) if feedback_list else "Good form!"
JoinFeedback(feedback_list) ==
    IF feedback_list = << >> THEN <<"Good form!">> ELSE feedback_list

\* feedback.append(msg) when cond holds
AppendIf(feedback, cond, msg) == IF cond THEN Append(feedback, msg) ELSE feedback

\* ---------------------------------------------------------------------
\* State: the fields of one ExerciseAnalyzer, and the environment
\* ---------------------------------------------------------------------
VARIABLES
    exercise_type,          \* None until set_exercise_type
    rep_count,
    rep_phase,
    feedback_history,
    metrics_history,
    start_time,
    form_errors,
    rep_quality_scores,
    is_correct_form,
    all_feedback_per_frame,
    \* sit-ups
    prev_torso_angle,
    \* vertical jump
    baseline_hip_height,    \* None while the attribute does not exist
    \* standing broad jump
    jump_distances,
    best_distance,
    current_jump_distance,
    jump_attempts,
    baseline_established,
    calibration_frames,
    calibration_positions,
    baseline_hip_x,         \* sum of the calibration positions (mean * CALIBRATION_FRAMES)
    jump_trajectory,        \* None-free: << >> also stands for the missing attribute
    furthest_position_this_jump,   \* None while the attribute does not exist
    landing_stability_counter,
    \* plank
    plank_start_time,
    \* shuttle run
    shuttle,                \* record of the shuttle-run fields
    \* environment
    now,                    \* the wall clock read by time.time()
    frames_fed,             \* number of process_frame calls made
    reports,                \* the reports returned since the last frame was processed, oldest first
    drv                     \* the frame source of the scenario being run, or the request being served

analyzerVars == <<exercise_type, rep_count, rep_phase, feedback_history, metrics_history,
                  start_time, form_errors, rep_quality_scores, is_correct_form,
                  all_feedback_per_frame>>
situpVars == <<prev_torso_angle>>
jumpVars == <<baseline_hip_height>>
broadVars == <<jump_distances, best_distance, current_jump_distance, jump_attempts,
               baseline_established, calibration_frames, calibration_positions,
               baseline_hip_x, jump_trajectory, furthest_position_this_jump,
               landing_stability_counter>>
plankVars == <<plank_start_time>>
shuttleVars == <<shuttle>>
envVars == <<now, frames_fed, reports, drv>>
vars == <<analyzerVars, situpVars, jumpVars, broadVars, plankVars, shuttleVars, envVars>>


\* ---------------------------------------------------------------------
\* Reference metrics (_load_reference_metrics): the entries the analyzers read
\* ---------------------------------------------------------------------
ReferenceMetrics(ex) ==
    CASE ex = "SQUATS" ->
           [knee_angle_range |-> <<Deg(70), Deg(120)>>,
            torso_angle_range |-> <<Deg(60), Deg(110)>>,
            hip_knee_ankle_alignment |-> Frac20(16),
            perfect_knee_angle |-> Deg(90),
            perfect_torso_angle |-> Deg(80)]
      [] ex = "PUSHUPS" ->
           [elbow_angle_range |-> <<Deg(70), Deg(120)>>,
            shoulder_hip_ankle_alignment |-> Frac20(17),
            perfect_elbow_angle |-> Deg(90),
            perfect_alignment |-> Frac20(18)]
      [] ex = "VERTICAL_JUMP" ->
           [prep_knee_angle_range |-> <<Deg(90), Deg(130)>>,
            landing_knee_angle_range |-> <<Deg(100), Deg(140)>>,
            hip_knee_ankle_alignment |-> Frac20(16),
            perfect_prep_knee_angle |-> Deg(110),
            perfect_landing_knee_angle |-> Deg(120)]
      [] ex = "SITUPS" ->
           [down_torso_angle_range |-> <<Deg(0), Deg(20)>>,
            up_torso_angle_range |-> <<Deg(60), Deg(90)>>,
            max_knee_bend |-> Deg(140),
            min_knee_bend |-> Deg(50),
            spine_alignment_threshold |-> Frac20(8),
            perfect_down_angle |-> Deg(25),
            perfect_up_angle |-> Deg(80),
            perfect_knee_angle |-> Deg(90)]
      [] ex = "STANDING_BROAD_JUMP" ->
           [prep_knee_angle_range |-> <<Deg(90), Deg(130)>>,
            landing_knee_angle_range |-> <<Deg(80), Deg(160)>>,
            hip_knee_ankle_alignment |-> Frac20(16),
            perfect_prep_knee_angle |-> Deg(110),
            perfect_landing_knee_angle |-> Deg(120),
            max_landing_sway |-> Frac20(1)]
      [] ex = "PLANK_HOLD" ->
           [perfect_alignment |-> Deg(180),
            perfect_elbow_angle |-> Deg(90)]
      [] ex = "SHUTTLE_RUN" ->
           [direction_change_threshold |-> 8,   \* percent of the frame width
            speed_threshold |-> 2,
            stationary_threshold |-> 1,
            running_knee_angle_range |-> <<Deg(90), Deg(160)>>,
            turn_knee_angle_range |-> <<Deg(80), Deg(140)>>,
            hip_knee_ankle_alignment |-> Frac20(15),
            perfect_running_knee_angle |-> Deg(125),
            perfect_turn_knee_angle |-> Deg(110)]
      [] OTHER -> [none |-> 0]

reference_metrics == ReferenceMetrics(exercise_type)

\* form_errors[key] += 1 when cond holds
Bump(fe, key, cond) == IF cond THEN [fe EXCEPT ![key] = @ + 1] ELSE fe

\* ---------------------------------------------------------------------
\* calculate_rep_quality: called by the phase detectors when a rep completes,
\* before the current frame is appended to the histories
\* ---------------------------------------------------------------------
LastN(s, n) == SubSeq(s, Len(s) - n + 1, Len(s))

calculate_rep_quality ==
    IF Len(metrics_history) < 10 THEN 50
    ELSE LET recent_feedback == LastN(feedback_history, 10)
             good_frames == Cardinality({i \in 1..10 :
                                HasKeyword(recent_feedback[i], RepPositiveMsgs)})
         IN  (good_frames * 100) \div 10

\* rep_count after a frame whose detector reported rep_done
\* a rep counted twice
RepCountDoubled(rep_done) == IF rep_done THEN rep_count + 2 ELSE rep_count

RepCountAfter(rep_done) == IF rep_done THEN rep_count + 1 ELSE rep_count

\* rep_quality_scores after a frame whose detector reported rep_done
RepQualityAfter(rep_done) ==
    IF rep_done THEN Append(rep_quality_scores, calculate_rep_quality)
    ELSE rep_quality_scores

\* ---------------------------------------------------------------------
\* Squats
\* ---------------------------------------------------------------------
TOP_KNEE_ANGLE == 160
BOTTOM_KNEE_ANGLE == 100

\* a detector that counts a rep on every entry into at_top
detect_squat_phase_counting_entries(knee_angle) ==
    LET current_phase == rep_phase IN
    IF knee_angle > Deg(TOP_KNEE_ANGLE)
    THEN [phase |-> "at_top", rep_done |-> (current_phase # "at_top")]
    ELSE IF knee_angle < Deg(BOTTOM_KNEE_ANGLE)
    THEN [phase |-> "at_bottom", rep_done |-> FALSE]
    ELSE IF current_phase \in {"at_top", "going_up"} /\ knee_angle < Deg(150)
    THEN [phase |-> "going_down", rep_done |-> FALSE]
    ELSE IF current_phase \in {"at_bottom", "going_down"} /\ knee_angle > Deg(110)
    THEN [phase |-> "going_up", rep_done |-> FALSE]
    ELSE [phase |-> current_phase, rep_done |-> FALSE]

\* detect_squat_phase: the new phase, and whether the call counted a rep
detect_squat_phase(knee_angle) ==
    LET current_phase == rep_phase IN
    IF knee_angle > Deg(TOP_KNEE_ANGLE)
    THEN [phase |-> "at_top", rep_done |-> (current_phase = "going_up")]
    ELSE IF knee_angle < Deg(BOTTOM_KNEE_ANGLE)
    THEN [phase |-> "at_bottom", rep_done |-> FALSE]
    ELSE IF current_phase \in {"at_top", "going_up"} /\ knee_angle < Deg(150)
    THEN [phase |-> "going_down", rep_done |-> FALSE]
    ELSE IF current_phase \in {"at_bottom", "going_down"} /\ knee_angle > Deg(110)
    THEN [phase |-> "going_up", rep_done |-> FALSE]
    ELSE [phase |-> current_phase, rep_done |-> FALSE]

analyze_squats(knee_angle, torso_angle, alignment_score) ==
    LET d == detect_squat_phase(knee_angle)
        new_phase == d.phase
        phase_changed == new_phase # rep_phase
        descending == new_phase \in {"going_down", "at_bottom"}
        too_deep == descending /\ knee_angle < reference_metrics.knee_angle_range[1]
        too_shallow == descending /\ ~too_deep /\ knee_angle > Deg(130)
                          /\ new_phase = "at_bottom"
        lean == descending /\ torso_angle < reference_metrics.torso_angle_range[1]
        misaligned == alignment_score < reference_metrics.hip_knee_ankle_alignment
                          /\ new_phase # "at_top"
        f1 == AppendIf(<< >>, too_deep, "Going too deep! Control the descent.")
        f2 == AppendIf(f1, too_shallow, "Go deeper! Aim for 90 degrees.")
        f3 == AppendIf(f2, lean, "Chest up! Don't lean forward too much.")
        f4 == AppendIf(f3, misaligned, "Keep knees aligned with toes.")
        f5 == IF ~phase_changed THEN f4
              ELSE CASE new_phase = "going_down" -> Append(f4, "Descending... keep control!")
                     [] new_phase = "at_bottom" -> Append(f4, "Good depth! Now drive up!")
                     [] new_phase = "going_up" -> Append(f4, "Drive through your heels!")
                     [] new_phase = "at_top" -> Append(f4, "Rep complete! Great job!")
                     [] OTHER -> f4
        is_correct == ~(too_deep \/ too_shallow \/ lean \/ misaligned)
        feedback == AppendIf(f5, is_correct /\ f5 = << >>, "Excellent form! Keep going strong!")
        fe1 == Bump(form_errors, "depth_issues", too_deep \/ too_shallow)
        fe2 == Bump(fe1, "torso_lean", lean)
        fe3 == Bump(fe2, "knee_alignment", misaligned)
    IN  [is_correct |-> is_correct,
         feedback |-> feedback,
         phase |-> new_phase,
         rep_done |-> d.rep_done,
         form_errors |-> fe3,
         metrics |-> [knee_angle |-> knee_angle,
                      torso_angle |-> torso_angle,
                      alignment_score |-> alignment_score,
                      phase |-> new_phase,
                      knee_angle_deviation |->
                          IF descending
                          THEN Abs(knee_angle - reference_metrics.perfect_knee_angle) ELSE 0,
                      torso_angle_deviation |->
                          IF descending
                          THEN Abs(torso_angle - reference_metrics.perfect_torso_angle) ELSE 0]]

\* ---------------------------------------------------------------------
\* Push-ups
\* ---------------------------------------------------------------------
TOP_ELBOW_ANGLE == 160
BOTTOM_ELBOW_ANGLE == 90

detect_pushup_phase(elbow_angle) ==
    LET current_phase == rep_phase IN
    IF elbow_angle > Deg(TOP_ELBOW_ANGLE)
    THEN [phase |-> "at_top", rep_done |-> (current_phase = "going_up")]
    ELSE IF elbow_angle < Deg(BOTTOM_ELBOW_ANGLE)
    THEN [phase |-> "at_bottom", rep_done |-> FALSE]
    ELSE IF current_phase \in {"at_top", "going_up"} /\ elbow_angle < Deg(150)
    THEN [phase |-> "going_down", rep_done |-> FALSE]
    ELSE IF current_phase \in {"at_bottom", "going_down"} /\ elbow_angle > Deg(100)
    THEN [phase |-> "going_up", rep_done |-> FALSE]
    ELSE [phase |-> current_phase, rep_done |-> FALSE]

analyze_pushups(elbow_angle, alignment_score) ==
    LET d == detect_pushup_phase(elbow_angle)
        new_phase == d.phase
        phase_changed == new_phase # rep_phase
        descending == new_phase \in {"going_down", "at_bottom"}
        deep == descending /\ elbow_angle < reference_metrics.elbow_angle_range[1]
        too_shallow == descending /\ ~deep /\ elbow_angle > Deg(130)
                          /\ new_phase = "at_bottom"
        misaligned == alignment_score < reference_metrics.shoulder_hip_ankle_alignment
                          /\ new_phase # "at_top"
        f1 == AppendIf(<< >>, deep, "Great depth! Now push up!")
        f2 == AppendIf(f1, too_shallow, "Go lower! Get closer to the ground.")
        f3 == AppendIf(f2, misaligned, "Keep your body straight! Engage your core.")
        f4 == IF ~phase_changed THEN f3
              ELSE CASE new_phase = "going_down" ->
                            Append(f3, "Descending... control the movement!")
                     [] new_phase = "at_bottom" -> Append(f3, "Good depth! Drive up!")
                     [] new_phase = "going_up" -> Append(f3, "Push through! Almost there!")
                     [] new_phase = "at_top" -> Append(f3, "Rep complete! Nice work!")
                     [] OTHER -> f3
        is_correct == ~(too_shallow \/ misaligned)
        feedback == AppendIf(f4, is_correct /\ f4 = << >>, "Perfect form! Keep it up!")
        fe1 == Bump(form_errors, "depth_issues", too_shallow)
        fe2 == Bump(fe1, "body_alignment", misaligned)
    IN  [is_correct |-> is_correct,
         feedback |-> feedback,
         phase |-> new_phase,
         rep_done |-> d.rep_done,
         form_errors |-> fe2,
         metrics |-> [elbow_angle |-> elbow_angle,
                      alignment_score |-> alignment_score,
                      phase |-> new_phase,
                      elbow_angle_deviation |->
                          IF descending
                          THEN Abs(elbow_angle - reference_metrics.perfect_elbow_angle) ELSE 0,
                      alignment_deviation |->
                          IF new_phase # "at_top"
                          THEN Abs(alignment_score - reference_metrics.perfect_alignment)
                          ELSE 0]]

\* ---------------------------------------------------------------------
\* Sit-ups
\* ---------------------------------------------------------------------
DOWN_TORSO_ANGLE == 15
UP_TORSO_ANGLE == 60

\* a detector that counts a rep on every entry into at_bottom
detect_situp_phase_counting_entries(torso_angle) ==
    LET current_phase == rep_phase IN
    IF torso_angle <= Deg(DOWN_TORSO_ANGLE)
    THEN [phase |-> "at_bottom", rep_done |-> (current_phase # "at_bottom")]
    ELSE IF torso_angle >= Deg(UP_TORSO_ANGLE)
    THEN [phase |-> "at_top", rep_done |-> FALSE]
    ELSE IF current_phase \in {"at_bottom", "going_up"}
            /\ torso_angle > Deg(DOWN_TORSO_ANGLE + 5)
    THEN [phase |-> "going_up", rep_done |-> FALSE]
    ELSE IF current_phase \in {"at_top", "going_down"}
            /\ torso_angle < Deg(UP_TORSO_ANGLE - 5)
    THEN [phase |-> "going_down", rep_done |-> FALSE]
    ELSE [phase |-> current_phase, rep_done |-> FALSE]

\* a detector that lets a rising torso turn back: going_down from going_up
detect_situp_phase_turning_back(torso_angle) ==
    LET current_phase == rep_phase IN
    IF torso_angle <= Deg(DOWN_TORSO_ANGLE)
    THEN [phase |-> "at_bottom", rep_done |-> (current_phase = "going_down")]
    ELSE IF torso_angle >= Deg(UP_TORSO_ANGLE)
    THEN [phase |-> "at_top", rep_done |-> FALSE]
    ELSE IF current_phase \in {"at_bottom"}
            /\ torso_angle > Deg(DOWN_TORSO_ANGLE + 5)
    THEN [phase |-> "going_up", rep_done |-> FALSE]
    ELSE IF current_phase \in {"at_top", "going_down", "going_up"}
            /\ torso_angle < Deg(UP_TORSO_ANGLE - 5)
    THEN [phase |-> "going_down", rep_done |-> FALSE]
    ELSE [phase |-> current_phase, rep_done |-> FALSE]

detect_situp_phase(torso_angle) ==
    LET current_phase == rep_phase IN
    IF torso_angle <= Deg(DOWN_TORSO_ANGLE)
    THEN [phase |-> "at_bottom", rep_done |-> (current_phase = "going_down")]
    ELSE IF torso_angle >= Deg(UP_TORSO_ANGLE)
    THEN [phase |-> "at_top", rep_done |-> FALSE]
    ELSE IF current_phase \in {"at_bottom", "going_up"}
            /\ torso_angle > Deg(DOWN_TORSO_ANGLE + 5)
    THEN [phase |-> "going_up", rep_done |-> FALSE]
    ELSE IF current_phase \in {"at_top", "going_down"}
            /\ torso_angle < Deg(UP_TORSO_ANGLE - 5)
    THEN [phase |-> "going_down", rep_done |-> FALSE]
    ELSE [phase |-> current_phase, rep_done |-> FALSE]

analyze_situps(torso_angle, knee_angle, spine_alignment) ==
    LET d == detect_situp_phase(torso_angle)
        new_phase == d.phase
        phase_changed == new_phase # rep_phase
        rising == new_phase \in {"going_up", "at_top"}
        lowering == ~rising /\ new_phase \in {"going_down", "at_bottom"}
        knees_straight == rising /\ knee_angle < reference_metrics.min_knee_bend
        knees_bent == rising /\ ~knees_straight /\ knee_angle > reference_metrics.max_knee_bend
        up_range == reference_metrics.up_torso_angle_range
        low_top == rising /\ new_phase = "at_top" /\ torso_angle < up_range[1]
        far_top == rising /\ ~low_top /\ new_phase = "at_top" /\ torso_angle > up_range[2]
        down_range == reference_metrics.down_torso_angle_range
        high_bottom == lowering /\ new_phase = "at_bottom" /\ torso_angle > down_range[2]
        full_range == lowering /\ ~high_bottom /\ new_phase = "at_bottom"
                         /\ torso_angle < down_range[1]
        bad_spine == spine_alignment < reference_metrics.spine_alignment_threshold
                         /\ new_phase # "at_bottom"
        f1 == AppendIf(<< >>, knees_straight, "Bend your knees more! Keep feet flat.")
        f2 == AppendIf(f1, knees_bent,
                       "Don't bend knees too much - around 90 degrees is ideal.")
        f3 == AppendIf(f2, low_top, "Come up higher! Get closer to your knees.")
        f4 == AppendIf(f3, far_top, "Don't lean too far forward. Controlled movement!")
        f5 == AppendIf(f4, high_bottom, "Go down further! Shoulders should touch the ground.")
        f6 == AppendIf(f5, full_range, "Perfect range of motion!")
        f7 == AppendIf(f6, bad_spine, "Keep your spine straight! Don't twist or curve.")
        f8 == IF ~phase_changed THEN f7
              ELSE CASE new_phase = "going_up" -> Append(f7, "Rising up... engage your core!")
                     [] new_phase = "at_top" ->
                            Append(f7, "Good height! Now controlled descent.")
                     [] new_phase = "going_down" ->
                            Append(f7, "Controlled descent... don't drop!")
                     [] new_phase = "at_bottom" -> Append(f7, "Rep complete! Great work!")
                     [] OTHER -> f7
        correct1 == ~(knees_straight \/ knees_bent \/ low_top \/ far_top \/ high_bottom
                        \/ bad_spine)
        f9 == AppendIf(f8, correct1 /\ f8 = << >>, "Excellent sit-up form! Keep it controlled!")
        too_fast == prev_torso_angle # None /\ Abs(torso_angle - prev_torso_angle) > Deg(20)
        feedback == AppendIf(f9, too_fast, "Slow down! Control the movement.")
        fe1 == Bump(form_errors, "knee_alignment", knees_straight \/ knees_bent)
        fe2 == Bump(fe1, "depth_issues", low_top \/ high_bottom)
        fe3 == Bump(fe2, "torso_lean", far_top)
        fe4 == Bump(fe3, "body_alignment", bad_spine)
        fe5 == Bump(fe4, "body_alignment", too_fast)
    IN  [is_correct |-> correct1 /\ ~too_fast,
         feedback |-> feedback,
         phase |-> new_phase,
         rep_done |-> d.rep_done,
         form_errors |-> fe5,
         prev_torso_angle |-> torso_angle,
         metrics |-> [torso_angle |-> torso_angle,
                      knee_angle |-> knee_angle,
                      spine_alignment |-> spine_alignment,
                      phase |-> new_phase,
                      torso_angle_deviation |->
                          IF new_phase = "at_top"
                          THEN Abs(torso_angle - reference_metrics.perfect_up_angle)
                          ELSE IF new_phase = "at_bottom"
                          THEN Abs(torso_angle - reference_metrics.perfect_down_angle)
                          ELSE 0,
                      knee_angle_deviation |->
                          Abs(knee_angle - reference_metrics.perfect_knee_angle)]]

\* ---------------------------------------------------------------------
\* Vertical jump
\* ---------------------------------------------------------------------
PREP_KNEE_ANGLE == 120

\* detect_jump_phase: relative_height = hip_height / baseline_hip_height, compared
\* with 0.85, 0.7 and 0.95 by cross-multiplication
detect_jump_phase(hip_height, knee_angle) ==
    LET current_phase == rep_phase IN
    IF baseline_hip_height = None
    THEN [phase |-> "at_baseline", rep_done |-> FALSE, baseline_hip_height |-> hip_height]
    ELSE LET base == baseline_hip_height
             same(ph, done) == [phase |-> ph, rep_done |-> done, baseline_hip_height |-> base]
         IN
         IF current_phase = "at_baseline" /\ knee_angle < Deg(PREP_KNEE_ANGLE)
         THEN same("preparing", FALSE)
         ELSE IF current_phase = "preparing" /\ 100 * hip_height < 85 * base
         THEN same("takeoff", FALSE)
         ELSE IF current_phase = "takeoff" /\ 10 * hip_height < 7 * base
         THEN same("in_air", FALSE)
         ELSE IF current_phase = "in_air" /\ 100 * hip_height > 95 * base
         THEN same("landing", TRUE)
         ELSE IF current_phase = "landing" /\ knee_angle > Deg(150)
         THEN same("at_baseline", FALSE)
         ELSE same(current_phase, FALSE)

analyze_vertical_jump(avg_hip_height, left_knee_angle, right_knee_angle, avg_alignment) ==
    LET avg_knee_angle == (left_knee_angle + right_knee_angle) \div 2
        d == detect_jump_phase(avg_hip_height, avg_knee_angle)
        new_phase == d.phase
        phase_changed == new_phase # rep_phase
        knee_angle_diff == Abs(left_knee_angle - right_knee_angle)
        prep == new_phase = "preparing"
        land == new_phase = "landing"
        prep_range == reference_metrics.prep_knee_angle_range
        land_range == reference_metrics.landing_knee_angle_range
        prep_deep == prep /\ avg_knee_angle < prep_range[1]
        prep_shallow == prep /\ ~prep_deep /\ avg_knee_angle > prep_range[2]
        prep_asym == prep /\ knee_angle_diff > Deg(15)
        land_low == land /\ avg_knee_angle < land_range[1]
        land_stiff == land /\ ~land_low /\ avg_knee_angle > land_range[2]
        land_asym == land /\ knee_angle_diff > Deg(20)
        misaligned == avg_alignment < reference_metrics.hip_knee_ankle_alignment
                          /\ new_phase # "in_air"
        f1 == AppendIf(<< >>, prep_deep, "Don't squat too deep in preparation!")
        f2 == AppendIf(f1, prep_shallow, "Bend your knees more for better power!")
        f3 == AppendIf(f2, prep_asym, "Keep both legs symmetrical!")
        f4 == AppendIf(f3, land_low, "Bend your knees more on landing for safety!")
        f5 == AppendIf(f4, land_stiff, "Don't land too stiff! Absorb the impact!")
        f6 == AppendIf(f5, land_asym, "Try to land evenly on both feet!")
        f7 == AppendIf(f6, misaligned, "Keep your knees aligned with your toes!")
        f8 == IF ~phase_changed THEN f7
              ELSE CASE new_phase = "preparing" ->
                            Append(f7, "Good preparation! Get ready to explode up!")
                     [] new_phase = "takeoff" -> Append(f7, "Drive up with power!")
                     [] new_phase = "in_air" -> Append(f7, "Great jump! Prepare for landing!")
                     [] new_phase = "landing" -> Append(f7, "Jump complete! Nice work!")
                     [] new_phase = "at_baseline" -> Append(f7, "Ready for next jump!")
                     [] OTHER -> f7
        is_correct == ~(prep_deep \/ prep_shallow \/ prep_asym \/ land_low \/ land_stiff
                          \/ land_asym \/ misaligned)
        feedback == AppendIf(f8, is_correct /\ f8 = << >>, "Perfect jump form!")
        fe1 == Bump(form_errors, "depth_issues", prep_deep)
        fe2 == Bump(fe1, "takeoff_form", prep_shallow)
        fe3 == Bump(fe2, "jump_asymmetry", prep_asym)
        fe4 == Bump(fe3, "landing_form", land_low \/ land_stiff)
        fe5 == Bump(fe4, "jump_asymmetry", land_asym)
        fe6 == Bump(fe5, "knee_alignment", misaligned)
    IN  [is_correct |-> is_correct,
         feedback |-> feedback,
         phase |-> new_phase,
         rep_done |-> d.rep_done,
         form_errors |-> fe6,
         baseline_hip_height |-> d.baseline_hip_height,
         metrics |-> [avg_knee_angle |-> avg_knee_angle,
                      avg_alignment |-> avg_alignment,
                      phase |-> new_phase,
                      knee_asymmetry |-> knee_angle_diff,
                      knee_angle_deviation |->
                          IF new_phase = "preparing"
                          THEN Abs(avg_knee_angle - reference_metrics.perfect_prep_knee_angle)
                          ELSE IF new_phase = "landing"
                          THEN Abs(avg_knee_angle
                                     - reference_metrics.perfect_landing_knee_angle)
                          ELSE 0]]

\* ---------------------------------------------------------------------
\* Standing broad jump
\* ---------------------------------------------------------------------
CALIBRATION_FRAMES == 30
LANDING_STABILITY_FRAMES == 15

\* denominator of the jump distances: a distance of n/DistDen percent
DistDen == CALIBRATION_FRAMES * FrameWidth

\* abs(pos - baseline_hip_x), in units of 1/CALIBRATION_FRAMES pixel
ScaledDisplacement(pos, baseline) == Abs(CALIBRATION_FRAMES * pos - baseline)

\* (pixels / frame_width) * 100, as a numerator over DistDen
RelativeDistance(scaled_pixels) == scaled_pixels * 100

\* a calibration that takes the last position for the baseline
CalibratedBaselineOfLast(positions) == positions[Len(positions)] * CALIBRATION_FRAMES

\* np.mean(calibration_positions), times CALIBRATION_FRAMES
CalibratedBaseline(positions) ==
    (SeqSum(positions) * CALIBRATION_FRAMES) \div Len(positions)

\* the phases in which track_jump_trajectory records the hip position
TrajectoryPhases == {"takeoff", "in_air", "landing"}

\* track_jump_trajectory, on the trajectory as the previous call left it; it
\* reads self.rep_phase, the phase of the previous frame
track_jump_trajectory(trajectory, hip_x_position) ==
    LET recorded == IF rep_phase \in TrajectoryPhases
                    THEN Append(trajectory, hip_x_position) ELSE trajectory
    IN  IF rep_phase = "completed" /\ recorded # << >>
        THEN [jump_trajectory |-> << >>,
              max_displacement |->
                  SeqMax([i \in 1..Len(recorded) |->
                             ScaledDisplacement(recorded[i], baseline_hip_x)])]
        ELSE [jump_trajectory |-> recorded, max_displacement |-> 0]

\* the distance recorded when the landing has been stable: from the trajectory
\* if track_jump_trajectory returned one, else from the furthest landing position
RecordedJumpDistance(trajectory_distance, furthest) ==
    IF trajectory_distance > 0
    THEN RelativeDistance(trajectory_distance)
    ELSE IF furthest # None
    THEN RelativeDistance(ScaledDisplacement(furthest, baseline_hip_x))
    ELSE 0

\* the broad-jump fields as a record, unchanged but for the given ones
BroadState ==
    [phase |-> rep_phase,
     jump_distances |-> jump_distances,
     best_distance |-> best_distance,
     current_jump_distance |-> current_jump_distance,
     jump_attempts |-> jump_attempts,
     baseline_established |-> baseline_established,
     calibration_frames |-> calibration_frames,
     calibration_positions |-> calibration_positions,
     baseline_hip_x |-> baseline_hip_x,
     jump_trajectory |-> jump_trajectory,
     furthest_position_this_jump |-> furthest_position_this_jump,
     landing_stability_counter |-> landing_stability_counter]

\* the calibration branch of detect_broad_jump_phase
BroadCalibrated(positions, frames) ==
    IF frames >= CALIBRATION_FRAMES
    THEN [BroadState EXCEPT !.calibration_positions = positions,
                            !.calibration_frames = frames,
                            !.baseline_hip_x = CalibratedBaseline(positions),
                            !.baseline_established = TRUE,
                            !.phase = "at_baseline"]
    ELSE [BroadState EXCEPT !.calibration_positions = positions,
                            !.calibration_frames = frames,
                            !.phase = "calibrating"]

\* the furthest landing position after this frame
FurthestPosition(hip_x_position) ==
    IF furthest_position_this_jump = None
    THEN hip_x_position
    ELSE IF ScaledDisplacement(hip_x_position, baseline_hip_x)
              > ScaledDisplacement(furthest_position_this_jump, baseline_hip_x)
    THEN hip_x_position
    ELSE furthest_position_this_jump

\* a record that keeps the last distance as the best one
BroadJumpRecordedKeepingLast(st, t2, jump_distance_relative) ==
    [st EXCEPT !.landing_stability_counter = landing_stability_counter + 1,
               !.jump_trajectory = t2.jump_trajectory,
               !.current_jump_distance = jump_distance_relative,
               !.jump_distances = Append(@, jump_distance_relative),
               !.best_distance = jump_distance_relative,
               !.jump_attempts = @ + 1,
               !.furthest_position_this_jump = None,
               !.phase = "completed"]

\* the landing has been stable: the second call of track_jump_trajectory has
\* returned t2, and the jump is recorded
BroadJumpRecorded(st, t2, jump_distance_relative) ==
    [st EXCEPT !.landing_stability_counter = landing_stability_counter + 1,
               !.jump_trajectory = t2.jump_trajectory,
               !.current_jump_distance = jump_distance_relative,
               !.jump_distances = Append(@, jump_distance_relative),
               !.best_distance = Max2(@, jump_distance_relative),
               !.jump_attempts = @ + 1,
               !.furthest_position_this_jump = None,
               !.phase = "completed"]

\* the second call of track_jump_trajectory, and the distance it gives
BroadJumpMeasured(st, t2, hip_x_position) ==
    BroadJumpRecorded(st, t2,
                      RecordedJumpDistance(t2.max_displacement,
                                           FurthestPosition(hip_x_position)))

\* a state machine that waits one landing frame more before recording the jump
BroadPhaseOneFrameLate(st, hip_x_position, knee_angle, frame_width) ==
    LET current_phase == rep_phase
        abs_displacement == ScaledDisplacement(hip_x_position, baseline_hip_x)
        \* abs_displacement > 0.02 * frame_width, > 0.05 * frame_width
        over_takeoff == 100 * abs_displacement > 2 * frame_width * CALIBRATION_FRAMES
        over_significant == 100 * abs_displacement > 5 * frame_width * CALIBRATION_FRAMES
    IN
    IF current_phase = "at_baseline" /\ knee_angle < Deg(PREP_KNEE_ANGLE)
    THEN [st EXCEPT !.phase = "preparing"]
    ELSE IF current_phase = "preparing" /\ over_takeoff
    THEN [st EXCEPT !.phase = "takeoff"]
    ELSE IF current_phase = "takeoff" /\ over_significant
    THEN [st EXCEPT !.phase = "in_air"]
    ELSE IF current_phase = "in_air"
    THEN IF knee_angle < Deg(150) /\ over_significant
         THEN [st EXCEPT !.landing_stability_counter = 0, !.phase = "landing"]
         ELSE st
    ELSE IF current_phase = "landing"
    THEN IF landing_stability_counter + 1 > LANDING_STABILITY_FRAMES
         THEN BroadJumpMeasured(st,
                                track_jump_trajectory(st.jump_trajectory, hip_x_position),
                                hip_x_position)
         ELSE [st EXCEPT !.landing_stability_counter = landing_stability_counter + 1,
                         !.furthest_position_this_jump = FurthestPosition(hip_x_position)]
    ELSE IF current_phase = "completed" /\ knee_angle > Deg(150)
    THEN [st EXCEPT !.phase = "at_baseline"]
    ELSE st

\* the phase state machine of detect_broad_jump_phase, on the fields st after
\* the first call of track_jump_trajectory
BroadPhase(st, hip_x_position, knee_angle, frame_width) ==
    LET current_phase == rep_phase
        abs_displacement == ScaledDisplacement(hip_x_position, baseline_hip_x)
        \* abs_displacement > 0.02 * frame_width, > 0.05 * frame_width
        over_takeoff == 100 * abs_displacement > 2 * frame_width * CALIBRATION_FRAMES
        over_significant == 100 * abs_displacement > 5 * frame_width * CALIBRATION_FRAMES
    IN
    IF current_phase = "at_baseline" /\ knee_angle < Deg(PREP_KNEE_ANGLE)
    THEN [st EXCEPT !.phase = "preparing"]
    ELSE IF current_phase = "preparing" /\ over_takeoff
    THEN [st EXCEPT !.phase = "takeoff"]
    ELSE IF current_phase = "takeoff" /\ over_significant
    THEN [st EXCEPT !.phase = "in_air"]
    ELSE IF current_phase = "in_air"
    THEN IF knee_angle < Deg(150) /\ over_significant
         THEN [st EXCEPT !.landing_stability_counter = 0, !.phase = "landing"]
         ELSE st
    ELSE IF current_phase = "landing"
    THEN IF landing_stability_counter + 1 >= LANDING_STABILITY_FRAMES
         THEN BroadJumpMeasured(st,
                                track_jump_trajectory(st.jump_trajectory, hip_x_position),
                                hip_x_position)
         ELSE [st EXCEPT !.landing_stability_counter = landing_stability_counter + 1,
                         !.furthest_position_this_jump = FurthestPosition(hip_x_position)]
    ELSE IF current_phase = "completed" /\ knee_angle > Deg(150)
    THEN [st EXCEPT !.phase = "at_baseline"]
    ELSE st

\* detect_broad_jump_phase: the broad-jump fields after the call, phase included
detect_broad_jump_phase(hip_x_position, knee_angle, frame_width) ==
    IF ~baseline_established
    THEN BroadCalibrated(Append(calibration_positions, hip_x_position),
                         calibration_frames + 1)
    ELSE BroadPhase([BroadState EXCEPT
                        !.jump_trajectory =
                            track_jump_trajectory(jump_trajectory,
                                                  hip_x_position).jump_trajectory],
                    hip_x_position, knee_angle, frame_width)

\* get_distance_classification, on a distance over DistDen
get_distance_classification(distance) ==
    IF distance >= 25 * DistDen THEN "Excellent"
    ELSE IF distance >= 20 * DistDen THEN "Good"
    ELSE IF distance >= 15 * DistDen THEN "Fair"
    ELSE IF distance >= 10 * DistDen THEN "Poor"
    ELSE "Very Poor"

JumpCompleteMsg(class) ==
    CASE class = "Excellent" -> "Jump complete! Distance: Excellent"
      [] class = "Good" -> "Jump complete! Distance: Good"
      [] class = "Fair" -> "Jump complete! Distance: Fair"
      [] class = "Poor" -> "Jump complete! Distance: Poor"
      [] OTHER -> "Jump complete! Distance: Very Poor"

\* the form checks of analyze_standing_broad_jump, on the fields st that
\* detect_broad_jump_phase left
BroadFormChecked(st, avg_hip_x, left_knee_angle, right_knee_angle, hip_sway, avg_alignment) ==
    LET avg_knee_angle == (left_knee_angle + right_knee_angle) \div 2
        new_phase == st.phase
        knee_angle_diff == Abs(left_knee_angle - right_knee_angle)
        prep == new_phase = "preparing"
        land == new_phase = "landing"
        prep_range == reference_metrics.prep_knee_angle_range
        land_range == reference_metrics.landing_knee_angle_range
        prep_deep == prep /\ avg_knee_angle < prep_range[1]
        prep_shallow == prep /\ ~prep_deep /\ avg_knee_angle > prep_range[2]
        prep_asym == prep /\ knee_angle_diff > Deg(15)
        land_low == land /\ avg_knee_angle < land_range[1]
        land_stiff == land /\ ~land_low /\ avg_knee_angle > land_range[2]
        land_sway == land /\ hip_sway > reference_metrics.max_landing_sway
        misaligned == avg_alignment < reference_metrics.hip_knee_ankle_alignment
                          /\ new_phase \notin {"in_air", "calibrating"}
        f1 == CASE new_phase = "calibrating" ->
                      <<"Establishing baseline position... Stay still!">>
                [] prep ->
                      AppendIf(
                        <<(IF prep_deep
                           THEN "Don't squat too deep! Focus on explosive power."
                           ELSE IF prep_shallow
                           THEN "Bend your knees more for maximum power!"
                           ELSE "Good preparation! Get ready to explode forward!")>>,
                        prep_asym, "Keep both legs symmetrical for balanced takeoff!")
                [] new_phase = "takeoff" -> <<"Drive forward with maximum power!">>
                [] new_phase = "in_air" -> <<"Great jump! Prepare for safe landing!">>
                [] land ->
                      AppendIf(
                        <<(IF land_low
                           THEN "Bend your knees more on landing to absorb impact!"
                           ELSE IF land_stiff
                           THEN "Don't land too stiff! Absorb the landing!"
                           ELSE "Good landing form! Absorbing the impact well.")>>,
                        land_sway, "Try to land more balanced and stable!")
                [] new_phase = "completed" ->
                      <<JumpCompleteMsg(get_distance_classification(st.current_jump_distance))>>
                [] new_phase = "at_baseline" ->
                      <<(IF st.jump_attempts > 0
                         THEN "Ready for next jump! Best so far"
                         ELSE "Ready to jump! Take your time to prepare.")>>
                [] OTHER -> << >>
        f2 == AppendIf(f1, misaligned, "Keep your knees aligned with your toes!")
        is_correct == ~(prep_deep \/ prep_shallow \/ prep_asym \/ land_low \/ land_stiff
                          \/ land_sway \/ misaligned)
    IN  [is_correct |-> is_correct,
         feedback |-> IF is_correct /\ Len(f2) = 0 THEN <<"Good form!">> ELSE f2,
         phase |-> new_phase,
         form_errors |->
             Bump(Bump(Bump(Bump(Bump(Bump(form_errors, "depth_issues", prep_deep),
                                      "takeoff_form", prep_shallow),
                                 "jump_asymmetry", prep_asym),
                            "landing_form", land_low \/ land_stiff),
                       "landing_form", land_sway),
                  "knee_alignment", misaligned),
         broad |-> st,
         metrics |-> [avg_knee_angle |-> avg_knee_angle,
                      avg_alignment |-> avg_alignment,
                      phase |-> new_phase,
                      current_displacement |->
                          IF st.baseline_established
                          THEN RelativeDistance(ScaledDisplacement(avg_hip_x, st.baseline_hip_x))
                          ELSE 0,
                      current_jump_distance |-> st.current_jump_distance,
                      best_distance |-> st.best_distance,
                      attempts |-> st.jump_attempts,
                      knee_asymmetry |-> knee_angle_diff,
                      knee_angle_deviation |->
                          IF new_phase = "preparing"
                          THEN Abs(avg_knee_angle - reference_metrics.perfect_prep_knee_angle)
                          ELSE IF new_phase = "landing"
                          THEN Abs(avg_knee_angle
                                     - reference_metrics.perfect_landing_knee_angle)
                          ELSE 0]]

analyze_standing_broad_jump(avg_hip_x, left_knee_angle, right_knee_angle, hip_sway, avg_alignment, w) ==
    BroadFormChecked(detect_broad_jump_phase(avg_hip_x,
                                             (left_knee_angle + right_knee_angle) \div 2, w),
                     avg_hip_x, left_knee_angle, right_knee_angle, hip_sway, avg_alignment)

\* ---------------------------------------------------------------------
\* Plank hold
\* ---------------------------------------------------------------------
GOOD_PLANK_ANGLE_MIN == 150
GOOD_PLANK_ANGLE_MAX == 200

\* a hold whose start time is taken again at every frame in range
detect_plank_phase_restarting(shoulder_hip_ankle_angle, elbow_angle) ==
    IF Deg(GOOD_PLANK_ANGLE_MIN) <= shoulder_hip_ankle_angle
       /\ shoulder_hip_ankle_angle <= Deg(GOOD_PLANK_ANGLE_MAX)
       /\ Deg(60) <= elbow_angle /\ elbow_angle <= Deg(130)
    THEN [phase |-> "holding", plank_start_time |-> now]
    ELSE [phase |-> "not_holding", plank_start_time |-> plank_start_time]

\* detect_plank_phase: the new phase and plank_start_time after the call
detect_plank_phase(shoulder_hip_ankle_angle, elbow_angle) ==
    LET current_phase == rep_phase IN
    IF Deg(GOOD_PLANK_ANGLE_MIN) <= shoulder_hip_ankle_angle
       /\ shoulder_hip_ankle_angle <= Deg(GOOD_PLANK_ANGLE_MAX)
       /\ Deg(60) <= elbow_angle /\ elbow_angle <= Deg(130)
    THEN IF current_phase # "holding"
         THEN [phase |-> "holding", plank_start_time |-> now]
         ELSE [phase |-> "holding", plank_start_time |-> plank_start_time]
    ELSE [phase |-> "not_holding", plank_start_time |-> plank_start_time]

\* the hold duration analyze_plank_hold computes before it detects the phase
HoldDuration == IF plank_start_time # None /\ plank_start_time # 0
                THEN now - plank_start_time ELSE 0

analyze_plank_hold(body_alignment_angle, avg_elbow_angle) ==
    LET hold_duration == HoldDuration
        d == detect_plank_phase(body_alignment_angle, avg_elbow_angle)
        new_phase == d.phase
        sag == body_alignment_angle < Deg(150)
        pike == ~sag /\ body_alignment_angle > Deg(200)
        elbow_low == avg_elbow_angle < Deg(60)
        elbow_high == ~elbow_low /\ avg_elbow_angle > Deg(130)
        f1 == AppendIf(<< >>, sag, "Keep your body straight! Don't let hips sag.")
        f2 == AppendIf(f1, pike, "Don't pike up! Keep body in straight line.")
        f3 == AppendIf(f2, elbow_low, "Keep elbows at 90 degrees!")
        f4 == AppendIf(f3, elbow_high, "Don't lock elbows! Keep 90-degree bend.")
        f5 == IF new_phase = "holding"
              THEN Append(f4, IF hold_duration > 0 THEN "Good hold! Duration"
                              ELSE "Hold the position! Keep core engaged!")
              ELSE IF new_phase = "not_holding"
              THEN Append(f4, "Get into plank position. Keep body straight!")
              ELSE f4
        is_correct == ~(sag \/ pike \/ elbow_low \/ elbow_high)
        feedback == AppendIf(f5, is_correct /\ new_phase # "holding",
                             "Perfect form! Now hold the position!")
        fe1 == Bump(form_errors, "body_alignment", sag \/ pike)
        fe2 == Bump(fe1, "elbow_position", elbow_low \/ elbow_high)
    IN  [is_correct |-> is_correct,
         feedback |-> feedback,
         phase |-> new_phase,
         form_errors |-> fe2,
         plank_start_time |-> IF new_phase = "not_holding" THEN None
                              ELSE d.plank_start_time,
         metrics |-> [body_alignment_angle |-> body_alignment_angle,
                      avg_elbow_angle |-> avg_elbow_angle,
                      hold_duration |-> hold_duration,
                      phase |-> new_phase,
                      alignment_deviation |->
                          IF new_phase = "holding"
                          THEN Abs(body_alignment_angle - Deg(180)) ELSE 0,
                      elbow_deviation |->
                          IF new_phase = "holding"
                          THEN Abs(avg_elbow_angle - Deg(90)) ELSE 0]]

\* ---------------------------------------------------------------------
\* Shuttle run.  The shuttle-run fields are the fields of the record shuttle;
\* has_baseline stands for hasattr(self, 'shuttle_baseline_x'), and the
\* direction None is "none".  Speeds are kept doubled (movement_speed * 2).
\* ---------------------------------------------------------------------
ShuttleInit ==
    [has_baseline |-> FALSE,
     shuttle_runs |-> << >>,
     current_shuttle_distance |-> 0,
     shuttle_attempts |-> 0,
     direction_changes |-> 0,
     shuttle_start_time |-> None,
     shuttle_positions |-> << >>,
     current_direction |-> "none",
     last_direction_change_pos |-> None,
     turn_start_time |-> None,
     max_left_position |-> None,
     max_right_position |-> None,
     shuttle_run_times |-> << >>,
     last_run_start_time |-> None]

\* movement_speed > pct percent of the frame width (speed2 is the doubled speed)
SpeedOver(speed2, pct, frame_width) == 100 * speed2 > 2 * pct * frame_width
SpeedUnder(speed2, pct, frame_width) == 100 * speed2 < 2 * pct * frame_width
\* pixels > pct percent of the frame width
PixelsOver(pixels, pct, frame_width) == 100 * pixels > pct * frame_width

\* new_direction of detect_shuttle_run_phase
ShuttleDirection(sh, hip_x_position, fast, frame_width) ==
    LET n == Len(sh.shuttle_positions)
        position_change == IF n >= 2 THEN hip_x_position - sh.shuttle_positions[n - 1] ELSE 0
    IN  IF fast
        THEN IF n >= 2
             THEN IF PixelsOver(Abs(position_change), reference_metrics.speed_threshold,
                                frame_width)
                  THEN IF position_change > 0 THEN "right" ELSE "left"
                  ELSE "none"
             ELSE "right"
        ELSE "stationary"

\* direction_changed of detect_shuttle_run_phase
ShuttleDirectionChanged(sh, new_direction, hip_x_position, frame_width) ==
    /\ sh.current_direction # "none"
    /\ sh.current_direction # new_direction
    /\ new_direction # "stationary"
    /\ sh.current_direction # "stationary"
    /\ \/ sh.last_direction_change_pos = None
       \/ PixelsOver(Abs(hip_x_position - sh.last_direction_change_pos),
                     reference_metrics.direction_change_threshold, frame_width)

\* the bookkeeping of a direction change, on the fields sh
ShuttleTurnRecorded(sh, direction_changed, hip_x_position) ==
    IF direction_changed
    THEN [sh EXCEPT !.direction_changes = @ + 1,
                    !.last_direction_change_pos = hip_x_position,
                    !.turn_start_time = now,
                    !.shuttle_run_times =
                        IF sh.last_run_start_time # None /\ sh.last_run_start_time # 0
                        THEN Append(@, now - sh.last_run_start_time) ELSE @]
    ELSE sh

\* self.current_direction = new_direction, unless stationary
ShuttleDirectionStored(sh, new_direction) ==
    IF new_direction # "stationary"
    THEN [sh EXCEPT !.current_direction = new_direction] ELSE sh

\* the fields of a completed run: distance recorded, tracking reset
ShuttleRunRecorded(sh, hip_x_position) ==
    LET total_distance == Abs(sh.max_right_position - sh.max_left_position)
    IN  [sh EXCEPT !.current_shuttle_distance = total_distance * 100,
                   !.shuttle_runs = Append(@, total_distance * 100),
                   !.shuttle_attempts = @ + 1,
                   !.shuttle_positions = << >>,
                   !.last_direction_change_pos = None,
                   !.max_left_position = hip_x_position,
                   !.max_right_position = hip_x_position]

\* the phase state machine of detect_shuttle_run_phase, on the fields sh after
\* the direction bookkeeping
ShuttlePhase(sh, direction_changed, fast, hip_x_position, speed2, frame_width) ==
    LET current_phase == rep_phase IN
    IF current_phase = "at_start"
    THEN IF fast
         THEN [phase |-> "running",
               sh |-> [sh EXCEPT !.shuttle_start_time = now, !.last_run_start_time = now]]
         ELSE [phase |-> "at_start", sh |-> sh]
    ELSE IF current_phase = "running"
    THEN IF direction_changed THEN [phase |-> "turning", sh |-> sh]
         ELSE IF SpeedUnder(speed2, reference_metrics.stationary_threshold, frame_width)
         THEN [phase |-> "turning", sh |-> sh]
         ELSE [phase |-> "running", sh |-> sh]
    ELSE IF current_phase = "turning"
    THEN IF sh.turn_start_time # None /\ sh.turn_start_time # 0
         THEN IF fast /\ 2 * (now - sh.turn_start_time) > Sec(1)
              THEN [phase |-> "running", sh |-> [sh EXCEPT !.last_run_start_time = now]]
              ELSE IF now - sh.turn_start_time > Sec(2)
              THEN [phase |-> "completed", sh |-> sh]
              ELSE [phase |-> "turning", sh |-> sh]
         ELSE [phase |-> "turning", sh |-> sh]
    ELSE IF current_phase = "completed"
    THEN [phase |-> IF fast THEN "running" ELSE "at_start",
          sh |-> ShuttleRunRecorded(sh, hip_x_position)]
    ELSE [phase |-> current_phase, sh |-> sh]

\* detect_shuttle_run_phase once the direction of movement is known
ShuttleDetected(sh, new_direction, direction_changed, fast, hip_x_position, speed2, frame_width) ==
    ShuttlePhase(ShuttleDirectionStored(
                     ShuttleTurnRecorded(sh, direction_changed, hip_x_position),
                     new_direction),
                 direction_changed, fast, hip_x_position, speed2, frame_width)

\* detect_shuttle_run_phase on the fields sh with the extreme positions updated
ShuttleTracked(sh, new_direction, fast, hip_x_position, speed2, frame_width) ==
    ShuttleDetected(sh, new_direction,
                    ShuttleDirectionChanged(sh, new_direction, hip_x_position, frame_width),
                    fast, hip_x_position, speed2, frame_width)

\* detect_shuttle_run_phase, on the fields sh (shuttle_positions already holds the
\* current position): the fields after the call, and the new phase
detect_shuttle_run_phase(sh, hip_x_position, speed2, frame_width) ==
    IF ~sh.has_baseline
    THEN [phase |-> "at_start",
          sh |-> [sh EXCEPT !.has_baseline = TRUE,
                            !.max_left_position = hip_x_position,
                            !.max_right_position = hip_x_position,
                            !.current_direction = "none"]]
    ELSE ShuttleTracked([sh EXCEPT !.max_left_position = Min2(@, hip_x_position),
                                   !.max_right_position = Max2(@, hip_x_position)],
                        ShuttleDirection(sh, hip_x_position,
                                         SpeedOver(speed2, reference_metrics.speed_threshold,
                                                   frame_width),
                                         frame_width),
                        SpeedOver(speed2, reference_metrics.speed_threshold, frame_width),
                        hip_x_position, speed2, frame_width)

\* the last 10 hip positions, the current one included
ShuttleWindow(avg_hip_x) ==
    LET appended == Append(shuttle.shuttle_positions, avg_hip_x)
    IN  IF Len(appended) > 10 THEN Tail(appended) ELSE appended

\* abs(shuttle_positions[-1] - shuttle_positions[-3]), twice the movement speed
MovementSpeed2(positions) ==
    LET n == Len(positions)
    IN  IF n >= 3 THEN Abs(positions[n] - positions[n - 2]) ELSE 0

\* the form checks of analyze_shuttle_run, on the result d of detect_shuttle_run_phase
ShuttleFormChecked(d, speed2, left_knee_angle, right_knee_angle, avg_alignment) ==
    LET avg_knee_angle == (left_knee_angle + right_knee_angle) \div 2
        new_phase == d.phase
        phase_changed == new_phase # rep_phase
        run == new_phase = "running"
        turn == new_phase = "turning"
        running_range == reference_metrics.running_knee_angle_range
        turn_range == reference_metrics.turn_knee_angle_range
        run_low == run /\ avg_knee_angle < running_range[1]
        run_high == run /\ ~run_low /\ avg_knee_angle > running_range[2]
        turn_low == turn /\ avg_knee_angle < turn_range[1]
        turn_high == turn /\ ~turn_low /\ avg_knee_angle > turn_range[2]
        knee_asymmetry == Abs(left_knee_angle - right_knee_angle)
        asym == knee_asymmetry > Deg(20) /\ run
        misaligned == avg_alignment < reference_metrics.hip_knee_ankle_alignment
        f1 == CASE run -> <<(IF run_low THEN "Lift your knees higher while running!"
                             ELSE IF run_high
                             THEN "Don't overstride! Keep knees under control."
                             ELSE "Good running form! Keep the pace up!")>>
                [] turn -> <<(IF turn_low THEN "Bend knees more during turns for stability!"
                              ELSE IF turn_high THEN "Lower your center of gravity in turns!"
                              ELSE "Good turning technique! Quick direction change!")>>
                [] new_phase = "at_start" ->
                       <<"Ready to start shuttle run! Sprint to one side!">>
                [] new_phase = "completed" -> <<"Shuttle run complete! Distance">>
                [] OTHER -> << >>
        f3 == AppendIf(AppendIf(f1, asym, "Keep both legs working equally!"),
                       misaligned, "Keep knees aligned with your direction of movement!")
        f4 == AppendIf(AppendIf(f3, phase_changed /\ run, "Sprinting! Drive with your arms!"),
                       phase_changed /\ ~run /\ turn, "Quick turn! Plant and pivot!")
        is_correct == ~(run_low \/ run_high \/ turn_low \/ turn_high \/ asym \/ misaligned)
    IN  [is_correct |-> is_correct,
         feedback |-> IF is_correct /\ Len(f4) = 0 THEN <<"Excellent shuttle run form!">>
                      ELSE f4,
         phase |-> new_phase,
         form_errors |->
             Bump(Bump(Bump(Bump(form_errors, "knee_alignment", run_low \/ run_high),
                            "depth_issues", turn_low \/ turn_high),
                       "jump_asymmetry", asym),
                  "knee_alignment", misaligned),
         shuttle |-> d.sh,
         metrics |-> [avg_knee_angle |-> avg_knee_angle,
                      avg_alignment |-> avg_alignment,
                      phase |-> new_phase,
                      movement_speed |-> speed2,
                      direction_changes |-> d.sh.direction_changes,
                      current_direction |-> d.sh.current_direction,
                      knee_asymmetry |-> knee_asymmetry,
                      knee_angle_deviation |->
                          IF new_phase = "running"
                          THEN Abs(avg_knee_angle
                                     - reference_metrics.perfect_running_knee_angle)
                          ELSE IF new_phase = "turning"
                          THEN Abs(avg_knee_angle - reference_metrics.perfect_turn_knee_angle)
                          ELSE 0,
                      total_runs |-> Len(d.sh.shuttle_run_times)]]

\* analyze_shuttle_run once the window of positions is updated
ShuttleAnalyzed(positions, avg_hip_x, left_knee_angle, right_knee_angle, avg_alignment, w) ==
    ShuttleFormChecked(
        detect_shuttle_run_phase([shuttle EXCEPT !.shuttle_positions = positions],
                                 avg_hip_x, MovementSpeed2(positions), w),
        MovementSpeed2(positions), left_knee_angle, right_knee_angle, avg_alignment)

analyze_shuttle_run(avg_hip_x, left_knee_angle, right_knee_angle, avg_alignment, w) ==
    ShuttleAnalyzed(ShuttleWindow(avg_hip_x), avg_hip_x, left_knee_angle, right_knee_angle,
                    avg_alignment, w)

\* ---------------------------------------------------------------------
\* Scoring.  A score is [num, den], the number num/den.
\* ---------------------------------------------------------------------
\* calculate_distance_score, over DistDen
calculate_distance_score ==
    LET D == DistDen
        best_jump == best_distance
        num == IF jump_distances = << >> THEN 0
               ELSE IF best_jump >= 25 * D THEN 95 * D + Min2(5 * D, best_jump - 25 * D)
               ELSE IF best_jump >= 20 * D THEN 80 * D + 3 * (best_jump - 20 * D)
               ELSE IF best_jump >= 15 * D THEN 60 * D + 4 * (best_jump - 15 * D)
               ELSE IF best_jump >= 10 * D THEN 40 * D + 4 * (best_jump - 10 * D)
               ELSE Max2(20 * D, 4 * best_jump)
    IN  [num |-> num, den |-> D]

\* the metric fields whose name contains "deviation"
DeviationKeys == {"knee_angle_deviation", "torso_angle_deviation", "elbow_angle_deviation",
                  "alignment_deviation", "elbow_deviation"}

RECURSIVE CappedSum(_, _)
CappedSum(m, keys) ==
    IF keys = {} THEN 0
    ELSE LET k == CHOOSE x \in keys : TRUE
         IN  Min2(m[k], Deg(45)) + CappedSum(m, keys \ {k})

\* the deviations of one metrics record that the score counts (value > 0)
CountedDeviations(m) == {k \in DOMAIN m \cap DeviationKeys : m[k] > 0}

RECURSIVE TotalDeviation(_)
TotalDeviation(history) ==
    IF history = << >> THEN [total |-> 0, count |-> 0]
    ELSE LET rest == TotalDeviation(Tail(history))
             keys == CountedDeviations(Head(history))
         IN  [total |-> rest.total + CappedSum(Head(history), keys),
              count |-> rest.count + Cardinality(keys)]

CorrectFrames(history, msgs) ==
    Cardinality({i \in 1..Len(history) : HasKeyword(history[i], msgs)})

\* a clamp without the upper bound
ClampScoreOpen(num, den) == Max2(30 * den, num)

\* the lower and upper clamp of the composite score
ClampScore(num, den) == Min2(100 * den, Max2(30 * den, num))

\* a composite score without the base of 60 points
CompositeScoreWithoutBase ==
    IF metrics_history = << >> THEN [num |-> 50, den |-> 1]
    ELSE LET t == Len(feedback_history)
             c == CorrectFrames(feedback_history, ScorePositiveMsgs)
             scored == rep_quality_scores # << >>
             n == IF scored THEN Len(rep_quality_scores) ELSE 1
             S == IF scored THEN SeqSum(rep_quality_scores) ELSE 50
             dev == TotalDeviation(metrics_history)
             k == IF dev.count > 0 THEN dev.count ELSE 1
             T == dev.total
             tt == IF t > 0 THEN t ELSE 1
             den == tt * 10 * n * 180 * k
             form_bonus == IF t > 0 THEN 25 * c * (den \div tt) ELSE 0
             rep_bonus == S * (den \div (10 * n))
             precision_bonus == Max2(0, 5 * den - T * (den \div (180 * k)))
             completion == IF rep_count > 0 THEN Min2(rep_count * 2, 10) * den ELSE 0
             overall == form_bonus + rep_bonus + precision_bonus + completion
         IN  [num |-> ClampScore(overall, den), den |-> den]

\* calculate_overall_score for the composite-scored exercises
CompositeScore ==
    IF metrics_history = << >> THEN [num |-> 50, den |-> 1]
    ELSE LET t == Len(feedback_history)
             c == CorrectFrames(feedback_history, ScorePositiveMsgs)
             scored == rep_quality_scores # << >>
             n == IF scored THEN Len(rep_quality_scores) ELSE 1
             S == IF scored THEN SeqSum(rep_quality_scores) ELSE 50
             dev == TotalDeviation(metrics_history)
             k == IF dev.count > 0 THEN dev.count ELSE 1
             T == dev.total
             tt == IF t > 0 THEN t ELSE 1
             den == tt * 10 * n * 180 * k
             form_bonus == IF t > 0 THEN 25 * c * (den \div tt) ELSE 0
             rep_bonus == S * (den \div (10 * n))
             \* deviation_score * 5 = max(0, 1 - avg_deviation / 45) * 5
             precision_bonus == Max2(0, 5 * den - T * (den \div (180 * k)))
             completion == IF rep_count > 0 THEN Min2(rep_count * 2, 10) * den ELSE 0
             overall == 60 * den + form_bonus + rep_bonus + precision_bonus + completion
         IN  [num |-> ClampScore(overall, den), den |-> den]

calculate_overall_score ==
    IF exercise_type = "STANDING_BROAD_JUMP" THEN calculate_distance_score
    ELSE CompositeScore

ScoreAtLeast(score, n) == score.num >= n * score.den
ScoreAtMost(score, n) == score.num <= n * score.den

\* ---------------------------------------------------------------------
\* generate_comprehensive_report.  The report holds the analyzer's form_errors
\* dict and all_feedback_per_frame list themselves, not copies: those two
\* fields are read through ReportContents.  at_frame is bookkeeping of the
\* model (the number of frames fed when the report was made), not a field.
\* ---------------------------------------------------------------------
\* a grading that needs more than the listed score for a grade
GradeAbove(overall_score) ==
    IF ~ScoreAtMost(overall_score, 85) THEN "A"
    ELSE IF ~ScoreAtMost(overall_score, 70) THEN "B"
    ELSE IF ~ScoreAtMost(overall_score, 50) THEN "C"
    ELSE "D"

Grade(overall_score) ==
    IF ScoreAtLeast(overall_score, 85) THEN "A"
    ELSE IF ScoreAtLeast(overall_score, 70) THEN "B"
    ELSE IF ScoreAtLeast(overall_score, 50) THEN "C"
    ELSE "D"

\* duration = end_time - start_time, end_time read from the clock at the call
ReportDuration == IF start_time = None THEN 0 ELSE now - start_time

\* a report dated with the start of the session
ReportDateOfStart == start_time

\* datetime.now().isoformat(), read from the clock at the call
ReportDate == now

\* the outcomes of the call to the external summarization service: requests.post
\* raises (no connection, timeout), or returns a status and a body that
\* response.json() cannot parse, or parses to a string (plain, or with "Key
\* findings" and "Recommendations" sections), or to a JSON array
ApiBodies == {"unparsable", "text", "sections", "array"}
ApiOutcomes ==
    {[raised |-> TRUE, status |-> 0, body |-> "unparsable"]}
    \cup {[raised |-> FALSE, status |-> st, body |-> b] : st \in {200, 503}, b \in ApiBodies}

\* None, returned by _try_huggingface_api
NoSummary == [none |-> TRUE]

\* _parse_ai_response: a summary record made from the parsed body.  A body
\* that is not a string has no split(): the except branch builds the record.
parse_ai_response(generated_text) ==
    IF generated_text = "array"
    THEN [summary |-> generated_text,
          key_findings |-> <<"Form inconsistencies detected">>,
          recommendations |-> <<"Follow suggested improvements">>]
    ELSE IF generated_text = "sections"
    THEN [summary |-> generated_text,
          key_findings |-> <<"line under key findings">>,
          recommendations |-> <<"line under recommendations">>]
    ELSE [summary |-> generated_text,
          key_findings |-> <<"Form inconsistencies detected", "Performance analysis completed">>,
          recommendations |-> <<"Follow suggested improvements", "Practice with guided feedback">>]

\* _try_huggingface_api: every exception (of requests.post, of response.json())
\* is caught and gives None, and so does a status other than 200
try_huggingface_api(api) ==
    IF api.raised \/ api.body = "unparsable" THEN NoSummary
    ELSE IF api.status = 200 THEN parse_ai_response(api.body)
    ELSE NoSummary

PerformanceLevel(score) ==
    IF ScoreAtLeast(score, 90) THEN "Outstanding"
    ELSE IF ScoreAtLeast(score, 80) THEN "Excellent"
    ELSE IF ScoreAtLeast(score, 70) THEN "Good"
    ELSE IF ScoreAtLeast(score, 60) THEN "Satisfactory"
    ELSE IF ScoreAtLeast(score, 50) THEN "Fair"
    ELSE "Needs Major Improvement"

\* the findings of the rule-based summary about the form errors of squats and pushups
FormFindings(total_feedback_frames) ==
    IF exercise_type = "SQUATS"
    THEN AppendIf(AppendIf(AppendIf(<< >>,
            5 * form_errors["knee_alignment"] > total_feedback_frames,
            "Frequent knee valgus (inward collapse) during descent."),
            10 * form_errors["depth_issues"] > 3 * total_feedback_frames,
            "Inconsistent squat depth affecting range of motion."),
            4 * form_errors["torso_lean"] > total_feedback_frames,
            "Excessive forward lean compromising spinal alignment.")
    ELSE IF exercise_type = "PUSHUPS"
    THEN AppendIf(AppendIf(AppendIf(<< >>,
            5 * form_errors["body_alignment"] > total_feedback_frames,
            "Body alignment issues including hip sagging or elevation."),
            10 * form_errors["depth_issues"] > 3 * total_feedback_frames,
            "Insufficient range of motion in pushup movement."),
            5 * form_errors["elbow_position"] > total_feedback_frames,
            "Elbow flaring reducing mechanical efficiency.")
    ELSE << >>

\* _generate_enhanced_rule_based_summary; the recommendations drawn from the
\* user profile (BMI, age) are outside the model
generate_enhanced_rule_based_summary(score, findings) ==
    [summary |-> PerformanceLevel(score),
     key_findings |->
        IF findings # << >> THEN findings
        ELSE IF ScoreAtLeast(score, 85)
        THEN <<"Exceptional form consistency maintained.",
               "Optimal movement patterns demonstrated.",
               "Minimal technical corrections needed.">>
        ELSE <<"General form maintenance achieved.",
               "Minor technique refinements possible.",
               "Consistent effort demonstrated.">>,
     recommendations |->
        IF ScoreAtLeast(score, 85)
        THEN <<"Consider progressive overload increases.",
               "Maintain current excellent form standards.">>
        ELSE IF ScoreAtLeast(score, 70)
        THEN <<"Focus on form consistency over speed.", "Video review for self-correction.">>
        ELSE <<"Slow down movement tempo for better control.",
               "Consider working with a fitness professional.">>]

\* a summary call that hands on whatever the service call returned
get_ai_summary_unguarded(summary, rule_based) == summary

\* get_ai_summary: the service's summary if there is one, else the rule-based one
get_ai_summary(summary, rule_based) ==
    IF summary # NoSummary THEN summary ELSE rule_based

\* the report made of the computed values; api is bookkeeping of the model
\* (the outcome of the service call made for this report), not a field
ReportOf(api, overall_score, correct_frames, total_frames, rule_based_analysis) ==
    [type |-> exercise_type,
     duration |-> ReportDuration,
     date |-> ReportDate,
     overall_score |-> overall_score,
     form_accuracy |-> IF total_frames > 0
                       THEN [num |-> correct_frames * 100, den |-> total_frames]
                       ELSE [num |-> 0, den |-> 1],
     grade |-> Grade(overall_score),
     rep_count |-> rep_count,
     rule_based_analysis |-> rule_based_analysis,
     ai_analysis |-> get_ai_summary(try_huggingface_api(api), rule_based_analysis),
     total_frames |-> total_frames,
     correct_frames |-> correct_frames,
     at_frame |-> frames_fed,
     api |-> api]

RuleBasedOf(api, overall_score, correct_frames, total_frames) ==
    ReportOf(api, overall_score, correct_frames, total_frames,
             generate_enhanced_rule_based_summary(overall_score, FormFindings(total_frames)))

BuildReport(api) ==
    RuleBasedOf(api, calculate_overall_score,
                CorrectFrames(feedback_history, ReportPositiveMsgs), Len(feedback_history))

\* what a holder of report r reads in it now
ReportContents(r) ==
    [type |-> r.type, duration |-> r.duration, date |-> r.date,
     overall_score |-> r.overall_score, form_accuracy |-> r.form_accuracy,
     grade |-> r.grade, rep_count |-> r.rep_count,
     total_frames |-> r.total_frames, correct_frames |-> r.correct_frames,
     rule_based_analysis |-> r.rule_based_analysis, ai_analysis |-> r.ai_analysis,
     form_errors |-> form_errors,
     full_feedback_history |-> all_feedback_per_frame]

\* ---------------------------------------------------------------------
\* Initial state: ExerciseAnalyzer.__init__, and the clock
\* ---------------------------------------------------------------------
NewAnalyzer ==
    /\ exercise_type = NoExercise
    /\ rep_count = 0
    /\ rep_phase = "waiting"
    /\ feedback_history = << >>
    /\ metrics_history = << >>
    /\ start_time = None
    /\ form_errors = [k \in FormErrorKeys |-> 0]
    /\ rep_quality_scores = << >>
    /\ is_correct_form = TRUE
    /\ all_feedback_per_frame = << >>
    /\ prev_torso_angle = None
    /\ baseline_hip_height = None
    /\ jump_distances = << >>
    /\ best_distance = 0
    /\ current_jump_distance = 0
    /\ jump_attempts = 0
    /\ baseline_established = FALSE
    /\ calibration_frames = 0
    /\ calibration_positions = << >>
    /\ baseline_hip_x = None
    /\ jump_trajectory = << >>
    /\ furthest_position_this_jump = None
    /\ landing_stability_counter = None
    /\ plank_start_time = None
    /\ shuttle = ShuttleInit
    /\ now = 1
    /\ frames_fed = 0
    /\ reports = << >>

\* a session driven by no scenario
Init == NewAnalyzer /\ drv = [mode |-> "free"]

\* the initial phase set_exercise_type gives each exercise
InitialPhase(e) ==
    CASE e = "STANDING_BROAD_JUMP" -> "calibrating"
      [] e = "PLANK_HOLD" -> "not_holding"
      [] e = "SITUPS" -> "at_bottom"
      [] e = "SHUTTLE_RUN" -> "at_start"
      [] OTHER -> "at_top"

\* set_exercise_type, called once on a new analyzer (analyze_test)
SetExerciseType(e) ==
    /\ exercise_type = NoExercise
    /\ exercise_type' = e
    /\ start_time' = now
    /\ rep_phase' = InitialPhase(e)
    /\ IF e = "STANDING_BROAD_JUMP"
       THEN /\ jump_distances' = << >>
            /\ best_distance' = 0
            /\ current_jump_distance' = 0
            /\ jump_attempts' = 0
            /\ baseline_established' = FALSE
            /\ calibration_frames' = 0
            /\ calibration_positions' = << >>
            /\ UNCHANGED <<baseline_hip_x, jump_trajectory, furthest_position_this_jump,
                           landing_stability_counter>>
       ELSE UNCHANGED broadVars
    /\ plank_start_time' = IF e = "PLANK_HOLD" THEN None ELSE plank_start_time
    /\ prev_torso_angle' = IF e = "SITUPS" THEN Deg(25) ELSE prev_torso_angle
    /\ shuttle' = IF e = "SHUTTLE_RUN"
                  THEN [ShuttleInit EXCEPT !.has_baseline = shuttle.has_baseline]
                  ELSE shuttle
    /\ UNCHANGED <<rep_count, feedback_history, metrics_history, form_errors,
                   rep_quality_scores, is_correct_form, all_feedback_per_frame,
                   jumpVars, now, frames_fed, reports>>

\* ---------------------------------------------------------------------
\* process_frame.  One action per branch of the dispatch on exercise_type;
\* each appends the frame's feedback text and metrics to the histories.
\* ---------------------------------------------------------------------
\* a call of process_frame that records only the feedback text
RecordFrameFeedbackOnly(feedback_text, metrics) ==
    /\ feedback_history' = Append(feedback_history, feedback_text)
    /\ metrics_history' = metrics_history
    /\ frames_fed' = frames_fed + 1
    /\ reports' = << >>

\* self.feedback_history.append(feedback_text); self.metrics_history.append(metrics)
RecordFrame(feedback_text, metrics) ==
    /\ feedback_history' = Append(feedback_history, feedback_text)
    /\ metrics_history' = Append(metrics_history, metrics)
    /\ frames_fed' = frames_fed + 1
    /\ reports' = << >>

\* a squat frame whose knee alignment is checked in every phase, at_top included
ProcessFrameSquatsCheckingTop(knee_angle, torso_angle, alignment_score) ==
    /\ exercise_type = "SQUATS"
    /\ \E r \in {analyze_squats(knee_angle, torso_angle, alignment_score)} :
       \E late \in {r.phase = "at_top"
                       /\ alignment_score < reference_metrics.hip_knee_ankle_alignment} :
       /\ rep_phase' = r.phase
       /\ rep_count' = RepCountAfter(r.rep_done)
       /\ rep_quality_scores' = RepQualityAfter(r.rep_done)
       /\ form_errors' = Bump(r.form_errors, "knee_alignment", late)
       /\ is_correct_form' = (r.is_correct /\ ~late)
       /\ RecordFrame(JoinFeedback(r.feedback), r.metrics)
    /\ UNCHANGED <<exercise_type, start_time, all_feedback_per_frame, situpVars, jumpVars,
                   broadVars, plankVars, shuttleVars, now>>

ProcessFrameSquats(knee_angle, torso_angle, alignment_score) ==
    /\ exercise_type = "SQUATS"
    /\ \E r \in {analyze_squats(knee_angle, torso_angle, alignment_score)} :
       /\ rep_phase' = r.phase
       /\ rep_count' = RepCountAfter(r.rep_done)
       /\ rep_quality_scores' = RepQualityAfter(r.rep_done)
       /\ form_errors' = r.form_errors
       /\ is_correct_form' = r.is_correct
       /\ RecordFrame(JoinFeedback(r.feedback), r.metrics)
    /\ UNCHANGED <<exercise_type, start_time, all_feedback_per_frame, situpVars, jumpVars,
                   broadVars, plankVars, shuttleVars, now>>

ProcessFramePushups(elbow_angle, alignment_score) ==
    /\ exercise_type = "PUSHUPS"
    /\ \E r \in {analyze_pushups(elbow_angle, alignment_score)} :
       /\ rep_phase' = r.phase
       /\ rep_count' = RepCountAfter(r.rep_done)
       /\ rep_quality_scores' = RepQualityAfter(r.rep_done)
       /\ form_errors' = r.form_errors
       /\ is_correct_form' = r.is_correct
       /\ RecordFrame(JoinFeedback(r.feedback), r.metrics)
    /\ UNCHANGED <<exercise_type, start_time, all_feedback_per_frame, situpVars, jumpVars,
                   broadVars, plankVars, shuttleVars, now>>

ProcessFrameSitups(torso_angle, knee_angle, spine_alignment) ==
    /\ exercise_type = "SITUPS"
    /\ \E r \in {analyze_situps(torso_angle, knee_angle, spine_alignment)} :
       /\ rep_phase' = r.phase
       /\ rep_count' = RepCountAfter(r.rep_done)
       /\ rep_quality_scores' = RepQualityAfter(r.rep_done)
       /\ form_errors' = r.form_errors
       /\ is_correct_form' = r.is_correct
       /\ prev_torso_angle' = r.prev_torso_angle
       /\ RecordFrame(JoinFeedback(r.feedback), r.metrics)
    /\ UNCHANGED <<exercise_type, start_time, all_feedback_per_frame, jumpVars,
                   broadVars, plankVars, shuttleVars, now>>

ProcessFrameVerticalJump(avg_hip_height, left_knee_angle, right_knee_angle, avg_alignment) ==
    /\ exercise_type = "VERTICAL_JUMP"
    /\ \E r \in {analyze_vertical_jump(avg_hip_height, left_knee_angle, right_knee_angle,
                                      avg_alignment)} :
       /\ rep_phase' = r.phase
       /\ rep_count' = RepCountAfter(r.rep_done)
       /\ rep_quality_scores' = RepQualityAfter(r.rep_done)
       /\ form_errors' = r.form_errors
       /\ is_correct_form' = r.is_correct
       /\ baseline_hip_height' = r.baseline_hip_height
       /\ RecordFrame(JoinFeedback(r.feedback), r.metrics)
    /\ UNCHANGED <<exercise_type, start_time, all_feedback_per_frame, situpVars,
                   broadVars, plankVars, shuttleVars, now>>

ProcessFrameBroadJump(avg_hip_x, left_knee_angle, right_knee_angle, hip_sway, avg_alignment) ==
    /\ exercise_type = "STANDING_BROAD_JUMP"
    /\ \E r \in {analyze_standing_broad_jump(avg_hip_x, left_knee_angle, right_knee_angle,
                                            hip_sway, avg_alignment, FrameWidth)} :
       /\ rep_phase' = r.phase
       /\ form_errors' = r.form_errors
       /\ is_correct_form' = r.is_correct
       /\ jump_distances' = r.broad.jump_distances
       /\ best_distance' = r.broad.best_distance
       /\ current_jump_distance' = r.broad.current_jump_distance
       /\ jump_attempts' = r.broad.jump_attempts
       /\ baseline_established' = r.broad.baseline_established
       /\ calibration_frames' = r.broad.calibration_frames
       /\ calibration_positions' = r.broad.calibration_positions
       /\ baseline_hip_x' = r.broad.baseline_hip_x
       /\ jump_trajectory' = r.broad.jump_trajectory
       /\ furthest_position_this_jump' = r.broad.furthest_position_this_jump
       /\ landing_stability_counter' = r.broad.landing_stability_counter
       /\ RecordFrame(JoinFeedback(r.feedback), r.metrics)
    /\ UNCHANGED <<exercise_type, rep_count, rep_quality_scores, start_time,
                   all_feedback_per_frame, situpVars, jumpVars, plankVars, shuttleVars,
                   now>>

ProcessFramePlank(body_alignment_angle, avg_elbow_angle) ==
    /\ exercise_type = "PLANK_HOLD"
    /\ \E r \in {analyze_plank_hold(body_alignment_angle, avg_elbow_angle)} :
       /\ rep_phase' = r.phase
       /\ form_errors' = r.form_errors
       /\ is_correct_form' = r.is_correct
       /\ plank_start_time' = r.plank_start_time
       /\ RecordFrame(JoinFeedback(r.feedback), r.metrics)
    /\ UNCHANGED <<exercise_type, rep_count, rep_quality_scores, start_time,
                   all_feedback_per_frame, situpVars, jumpVars, broadVars, shuttleVars,
                   now>>

ProcessFrameShuttleRun(avg_hip_x, left_knee_angle, right_knee_angle, avg_alignment) ==
    /\ exercise_type = "SHUTTLE_RUN"
    /\ \E r \in {analyze_shuttle_run(avg_hip_x, left_knee_angle, right_knee_angle,
                                    avg_alignment, FrameWidth)} :
       /\ rep_phase' = r.phase
       /\ form_errors' = r.form_errors
       /\ is_correct_form' = r.is_correct
       /\ shuttle' = r.shuttle
       /\ RecordFrame(JoinFeedback(r.feedback), r.metrics)
    /\ UNCHANGED <<exercise_type, rep_count, rep_quality_scores, start_time,
                   all_feedback_per_frame, situpVars, jumpVars, broadVars, plankVars,
                   now>>

\* landmarks detected, but no branch of the dispatch matches the exercise type
\* (ENDURANCE_RUN, or no exercise selected): feedback_text "" and metrics {}
ProcessFrameNoAnalyzer ==
    /\ exercise_type \in {NoExercise, "ENDURANCE_RUN"}
    /\ RecordFrame(<< >>, << >>)
    /\ UNCHANGED <<exercise_type, rep_count, rep_phase, start_time, form_errors,
                   rep_quality_scores, is_correct_form, all_feedback_per_frame, situpVars,
                   jumpVars, broadVars, plankVars, shuttleVars, now>>

\* results.pose_landmarks is empty: process_frame returns (image, "", {})
ProcessFrameNoLandmarks ==
    /\ frames_fed' = frames_fed + 1
    /\ reports' = << >>
    /\ UNCHANGED <<analyzerVars, situpVars, jumpVars, broadVars, plankVars, shuttleVars,
                   now>>

\* a report that drains the feedback history it has summarised
GenerateReportDraining(api) ==
    /\ exercise_type # NoExercise
    /\ reports' = Append(reports, BuildReport(api))
    /\ feedback_history' = << >>
    /\ UNCHANGED <<exercise_type, rep_count, rep_phase, metrics_history, start_time,
                   form_errors, rep_quality_scores, is_correct_form, all_feedback_per_frame,
                   situpVars, jumpVars, broadVars, plankVars, shuttleVars, now, frames_fed>>

\* generate_comprehensive_report on a session whose exercise is selected
GenerateReport(api) ==
    /\ exercise_type # NoExercise
    /\ reports' = Append(reports, BuildReport(api))
    /\ UNCHANGED <<analyzerVars, situpVars, jumpVars, broadVars, plankVars, shuttleVars,
                   now, frames_fed>>

\* the wall clock advances by dt
Advance(dt) ==
    /\ now' = now + dt
    /\ UNCHANGED <<analyzerVars, situpVars, jumpVars, broadVars, plankVars, shuttleVars,
                   frames_fed, reports>>

\* the wall clock advances by one tick
Tick == Advance(1)

\* ---------------------------------------------------------------------
\* Spec: one session of any exercise, fed frames drawn from small sets
\* ---------------------------------------------------------------------
MaxFrames == 5
MaxTime == 1
MaxReports == 2

\* <<knee_angle, torso_angle, alignment_score>>
SquatFrames == {<<Deg(170), Deg(80), Frac20(19)>>, <<Deg(130), Deg(80), Frac20(14)>>,
                <<Deg(60), Deg(50), Frac20(19)>>}
\* <<elbow_angle, alignment_score>>
PushupFrames == {<<Deg(170), Frac20(19)>>, <<Deg(130), Frac20(15)>>, <<Deg(60), Frac20(19)>>}
\* <<torso_angle, knee_angle, spine_alignment>>
SitupFrames == {<<Deg(10), Deg(90), Frac20(10)>>, <<Deg(40), Deg(40), Frac20(10)>>,
                <<Deg(70), Deg(150), Frac20(5)>>}
\* <<avg_hip_height, left_knee_angle, right_knee_angle, avg_alignment>>
JumpFrames == {<<400, Deg(170), Deg(170), Frac20(19)>>, <<330, Deg(100), Deg(100), Frac20(19)>>,
               <<270, Deg(100), Deg(140), Frac20(14)>>}
\* <<avg_hip_x, left_knee_angle, right_knee_angle, hip_sway, avg_alignment>>
BroadFrames == {<<500, Deg(170), Deg(170), Frac20(0), Frac20(19)>>,
                <<520, Deg(100), Deg(100), Frac20(2), Frac20(14)>>}
\* <<body_alignment_angle, avg_elbow_angle>>
PlankFrames == {<<Deg(180), Deg(90)>>, <<Deg(140), Deg(90)>>, <<Deg(180), Deg(140)>>}
\* <<avg_hip_x, left_knee_angle, right_knee_angle, avg_alignment>>
ShuttleFrames == {<<500, Deg(120), Deg(120), Frac20(19)>>,
                  <<560, Deg(120), Deg(120), Frac20(19)>>,
                  <<440, Deg(170), Deg(120), Frac20(14)>>}

Select == \E e \in ExerciseType : SetExerciseType(e)
FeedSquats == \E f \in SquatFrames : ProcessFrameSquats(f[1], f[2], f[3])
FeedPushups == \E f \in PushupFrames : ProcessFramePushups(f[1], f[2])
FeedSitups == \E f \in SitupFrames : ProcessFrameSitups(f[1], f[2], f[3])
FeedJump == \E f \in JumpFrames : ProcessFrameVerticalJump(f[1], f[2], f[3], f[4])
FeedBroad == \E f \in BroadFrames : ProcessFrameBroadJump(f[1], f[2], f[3], f[4], f[5])
FeedPlank == \E f \in PlankFrames : ProcessFramePlank(f[1], f[2])
FeedShuttle == \E f \in ShuttleFrames : ProcessFrameShuttleRun(f[1], f[2], f[3], f[4])

\* the summarization service is out of reach: requests.post raises
Unreachable == [raised |-> TRUE, status |-> 0, body |-> "unparsable"]
Report == GenerateReport(Unreachable)

CanFeed == frames_fed < MaxFrames
CanReport == Len(reports) < MaxReports
\* the clock runs from the moment the session is set up
CanTick == exercise_type # NoExercise /\ now <= MaxTime

Next ==
    \/ Select /\ UNCHANGED drv
    \/ CanFeed /\ FeedSquats /\ UNCHANGED drv
    \/ CanFeed /\ FeedPushups /\ UNCHANGED drv
    \/ CanFeed /\ FeedSitups /\ UNCHANGED drv
    \/ CanFeed /\ FeedJump /\ UNCHANGED drv
    \/ CanFeed /\ FeedBroad /\ UNCHANGED drv
    \/ CanFeed /\ FeedPlank /\ UNCHANGED drv
    \/ CanFeed /\ FeedShuttle /\ UNCHANGED drv
    \/ CanFeed /\ ProcessFrameNoAnalyzer /\ UNCHANGED drv
    \/ CanFeed /\ ProcessFrameNoLandmarks /\ UNCHANGED drv
    \/ CanReport /\ Report /\ UNCHANGED drv
    \/ CanTick /\ Tick /\ UNCHANGED drv

Spec == Init /\ [][Next]_vars

\* ---------------------------------------------------------------------
\* SpecSquat: a squat session fed one squat, the knee angle going down from
\* 170 to 90 and back up to 170 through any of the sampled angles.  drv holds
\* the direction, the last angle fed and the phases visited so far.
\* ---------------------------------------------------------------------
\* the knee angles a frame may sample, in degrees, and the largest change of
\* angle from one frame to the next
SquatAngles == {90, 105, 120, 130, 140, 155, 170}
MaxSquatStep == 40
\* the torso angle and alignment of a well-formed squat
UprightTorso == Deg(80)
GoodAlignment == Frac20(19)

\* the phases visited, a phase being added when it differs from the last one
Visit(phases, phase) ==
    IF phases # << >> /\ phases[Len(phases)] = phase THEN phases ELSE Append(phases, phase)

InitSquat == NewAnalyzer /\ drv = [mode |-> "stand", knee |-> 170, phases |-> << >>]

SquatSelect == SetExerciseType("SQUATS") /\ UNCHANGED drv

\* the first frame, standing at 170
SquatStand ==
    /\ drv.mode = "stand"
    /\ ProcessFrameSquats(Deg(170), UprightTorso, GoodAlignment)
    /\ drv' = [mode |-> "down", knee |-> 170, phases |-> Visit(<<rep_phase>>, rep_phase')]

SquatDescend ==
    /\ drv.mode = "down"
    /\ \E a \in SquatAngles :
          /\ a < drv.knee /\ drv.knee - a <= MaxSquatStep
          /\ ProcessFrameSquats(Deg(a), UprightTorso, GoodAlignment)
          /\ drv' = [mode |-> IF a = 90 THEN "up" ELSE "down", knee |-> a,
                     phases |-> Visit(drv.phases, rep_phase')]

SquatAscend ==
    /\ drv.mode = "up"
    /\ \E a \in SquatAngles :
          /\ a > drv.knee /\ a - drv.knee <= MaxSquatStep
          /\ ProcessFrameSquats(Deg(a), UprightTorso, GoodAlignment)
          /\ drv' = [mode |-> IF a = 170 THEN "done" ELSE "up", knee |-> a,
                     phases |-> Visit(drv.phases, rep_phase')]

NextSquat ==
    \/ SquatSelect
    \/ SquatStand
    \/ SquatDescend
    \/ SquatAscend

SpecSquat == InitSquat /\ [][NextSquat]_vars

\* C1: when the knee angle has gone from 170 down to 90 and back up to 170, the
\* phases visited are at_top, going_down, at_bottom, going_up, at_top, each
\* once and in that order, and one rep has been counted.
C1_OneSquatOneRep ==
    drv.mode = "done" =>
        /\ drv.phases = <<"at_top", "going_down", "at_bottom", "going_up", "at_top">>
        /\ rep_count = 1

\* ---------------------------------------------------------------------
\* SpecOsc: a squat session fed oscillations of the knee angle between 170 and
\* 95 in equal steps, drv.per frames to the oscillation, and then a closing
\* frame back at 170.
\* ---------------------------------------------------------------------
MaxOscillations == 3
\* the numbers of frames to one oscillation
OscFrames == {4, 6, 10, 20}

\* the knee angle of frame i of an oscillation of per frames
OscAngle(per, i) ==
    LET half == per \div 2
        step == (Deg(170) - Deg(95)) \div half
    IN  IF i <= half THEN Deg(170) - i * step ELSE Deg(95) + (i - half) * step

InitOsc ==
    /\ NewAnalyzer
    /\ drv \in {[mode |-> "osc", per |-> per, closed |-> FALSE] : per \in OscFrames}

OscSelect == SetExerciseType("SQUATS") /\ UNCHANGED drv

OscFrame ==
    /\ ~drv.closed
    /\ frames_fed < MaxOscillations * drv.per
    /\ ProcessFrameSquats(OscAngle(drv.per, frames_fed % drv.per), UprightTorso, GoodAlignment)
    /\ UNCHANGED drv

\* the stream ends back at 170, after a whole number of oscillations
OscClose ==
    /\ ~drv.closed
    /\ frames_fed > 0
    /\ frames_fed % drv.per = 0
    /\ ProcessFrameSquats(Deg(170), UprightTorso, GoodAlignment)
    /\ drv' = [drv EXCEPT !.closed = TRUE]

NextOsc ==
    \/ OscSelect
    \/ OscFrame
    \/ OscClose

SpecOsc == InitOsc /\ [][NextOsc]_vars

\* C2: at the end of a stream of k oscillations, rep_count is k.
C2_RepPerOscillation ==
    drv.closed => rep_count = (frames_fed - 1) \div drv.per

\* ---------------------------------------------------------------------
\* SpecBroad: a broad-jump session of one jump.  The hip stands at BaselineHip
\* for the calibration frames; the jumper crouches, pushes off, flies through
\* some of FlightHips, comes down at one of LandingHips and stays there until
\* the jump is recorded, then stands up.  drv holds the stage, the number of
\* flight frames, the landing position and the peak displacement in pixels.
\* ---------------------------------------------------------------------
MaxFlightFrames == 2
\* the hip stands in the middle of the frame
BaselineHip == FrameWidth \div 2
FlightHips == {650, 750}
LandingHips == {700, 750}
StraightKnee == Deg(170)
BentKnee == Deg(100)

InitBroad ==
    /\ NewAnalyzer
    /\ drv = [mode |-> "broad", stage |-> "calibrate", flight |-> 0, land |-> BaselineHip,
              peak |-> 0]

\* a frame of the jump: both knees at knee, no sway, good alignment
BroadFrame(hip, knee) == ProcessFrameBroadJump(hip, knee, knee, Frac20(0), GoodAlignment)

\* drv after a frame of the jump at hip
Jumped(stage, hip) ==
    [drv EXCEPT !.stage = stage, !.peak = Max2(@, Abs(hip - BaselineHip))]

BroadSelect == SetExerciseType("STANDING_BROAD_JUMP") /\ UNCHANGED drv

BroadCalibrate ==
    /\ drv.stage = "calibrate"
    /\ BroadFrame(BaselineHip, StraightKnee)
    /\ drv' = [drv EXCEPT !.stage = IF baseline_established' THEN "crouch" ELSE "calibrate"]

BroadCrouch ==
    /\ drv.stage = "crouch"
    /\ BroadFrame(BaselineHip, BentKnee)
    /\ drv' = Jumped("push", BaselineHip)

BroadPush ==
    /\ drv.stage = "push"
    /\ BroadFrame(BaselineHip + 30, BentKnee)
    /\ drv' = Jumped("lift", BaselineHip + 30)

BroadLift ==
    /\ drv.stage = "lift"
    /\ BroadFrame(BaselineHip + 100, StraightKnee)
    /\ drv' = Jumped("flight", BaselineHip + 100)

BroadFly ==
    /\ drv.stage = "flight"
    /\ drv.flight < MaxFlightFrames
    /\ \E hip \in FlightHips :
          /\ BroadFrame(hip, StraightKnee)
          /\ drv' = [Jumped("flight", hip) EXCEPT !.flight = @ + 1]

BroadLand ==
    /\ drv.stage = "flight"
    /\ \E hip \in LandingHips :
          /\ BroadFrame(hip, BentKnee)
          /\ drv' = [Jumped("landing", hip) EXCEPT !.land = hip]

BroadSettle ==
    /\ drv.stage = "landing"
    /\ BroadFrame(drv.land, BentKnee)
    /\ drv' = Jumped(IF rep_phase' = "completed" THEN "landed" ELSE "landing", drv.land)

BroadStandUp ==
    /\ drv.stage = "landed"
    /\ BroadFrame(drv.land, StraightKnee)
    /\ drv' = [drv EXCEPT !.stage = "stood"]

NextBroad ==
    \/ BroadSelect
    \/ BroadCalibrate
    \/ BroadCrouch
    \/ BroadPush
    \/ BroadLift
    \/ BroadFly
    \/ BroadLand
    \/ BroadSettle
    \/ BroadStandUp

SpecBroad == InitBroad /\ [][NextBroad]_vars

\* C7: once the single jump has landed and been recorded, exactly one distance
\* is recorded, it is the peak displacement of the jump as a percentage of the
\* frame width, and jump_attempts is 1.
C7_OneJumpPeakRecorded ==
    drv.stage \in {"landed", "stood"} =>
        /\ Len(jump_distances) = 1
        /\ jump_attempts = 1
        /\ jump_distances[1] = RelativeDistance(CALIBRATION_FRAMES * drv.peak)

\* the peak displacement over the samples of the trajectory
TrajectoryPeak ==
    SeqMax([i \in 1..Len(jump_trajectory) |->
               ScaledDisplacement(jump_trajectory[i], baseline_hip_x)])

\* C8: when a jump completes with samples in its trajectory, the distance
\* recorded is the peak displacement over those samples.
C8_TrajectoryPeakRecorded ==
    (rep_phase = "completed" /\ jump_trajectory # << >>) =>
        current_jump_distance = RelativeDistance(TrajectoryPeak)

\* the number of frames processed while the phase was landing: the frames
\* whose previous frame ended in landing
ProcessedInLanding(history) ==
    Cardinality({i \in 2..Len(history) : history[i - 1].phase = "landing"})

\* C24: in a broad-jump session a frame adds 1 to jump_attempts exactly when it
\* moves the phase from landing to completed; that happens on the 15th frame
\* in a row processed while the phase is landing, not earlier and not later,
\* and the frame appends exactly one entry to jump_distances, which no other
\* frame does.
C24_AttemptOnFifteenthLandingFrame ==
    [][exercise_type = "STANDING_BROAD_JUMP" =>
          LET completes == rep_phase = "landing" /\ rep_phase' = "completed" IN
          /\ jump_attempts' = jump_attempts + (IF completes THEN 1 ELSE 0)
          /\ Len(jump_distances') = Len(jump_distances) + (IF completes THEN 1 ELSE 0)
          /\ completes => ProcessedInLanding(metrics_history') = LANDING_STABILITY_FRAMES
          /\ rep_phase' = "landing" =>
                ProcessedInLanding(metrics_history') < LANDING_STABILITY_FRAMES]_vars

\* the jump has been recorded on the 15th landing frame and the jumper has
\* stood up again
C24_Witness ==
    /\ drv.stage = "stood"
    /\ rep_phase = "at_baseline"
    /\ jump_attempts = 1
    /\ Len(jump_distances) = 1
    /\ ProcessedInLanding(metrics_history) = LANDING_STABILITY_FRAMES

\* ---------------------------------------------------------------------
\* SpecPlank: a plank session in which every frame is inside the holding
\* ranges, the clock advancing between frames.  drv.times holds the time of
\* each frame fed.
\* ---------------------------------------------------------------------
MaxPlankFrames == 3
MaxPlankSeconds == 70
\* the clock advances by 5 s or by 60 s
PlankSteps == {Sec(5), Sec(60)}
\* <<body_alignment_angle, avg_elbow_angle>>, inside the holding ranges
HoldingFrames == {<<Deg(180), Deg(90)>>, <<Deg(160), Deg(120)>>}

InitPlank == NewAnalyzer /\ drv = [mode |-> "plank", times |-> << >>]

PlankSelect == SetExerciseType("PLANK_HOLD") /\ UNCHANGED drv

PlankFrame ==
    /\ Len(drv.times) < MaxPlankFrames
    /\ \E f \in HoldingFrames : ProcessFramePlank(f[1], f[2])
    /\ drv' = [drv EXCEPT !.times = Append(@, now)]

PlankWait ==
    /\ exercise_type = "PLANK_HOLD"
    /\ \E dt \in PlankSteps : now + dt <= 1 + Sec(MaxPlankSeconds) /\ Advance(dt)
    /\ UNCHANGED drv

NextPlank ==
    \/ PlankSelect
    \/ PlankFrame
    \/ PlankWait

SpecPlank == InitPlank /\ [][NextPlank]_vars

\* C9: in a plank session whose frames are all inside the holding ranges, the
\* phase is holding from the first frame on, the hold start time is the time
\* of the first frame and stays so, and the hold_duration recorded at each
\* frame is the time elapsed since the first frame.
C9_HoldTimedFromFirstFrame ==
    drv.times # << >> =>
        /\ rep_phase = "holding"
        /\ plank_start_time = drv.times[1]
        /\ Len(metrics_history) = Len(drv.times)
        /\ \A i \in 1..Len(metrics_history) :
              /\ metrics_history[i].phase = "holding"
              /\ metrics_history[i].hold_duration = drv.times[i] - drv.times[1]

\* a frame 65 seconds after the first one, its hold_duration at least 60 s
C9_Witness ==
    /\ Len(metrics_history) >= 2
    /\ drv.times[Len(drv.times)] - drv.times[1] = Sec(65)
    /\ metrics_history[Len(metrics_history)].hold_duration >= Sec(60)

\* ---------------------------------------------------------------------
\* SpecSummary: a session of squats, pushups or the standing broad jump whose
\* report is made with any outcome of the call to the summarization service.
\* ---------------------------------------------------------------------
SummaryExercises == {"SQUATS", "PUSHUPS", "STANDING_BROAD_JUMP"}

InitSummary == NewAnalyzer /\ drv = [mode |-> "summary"]

SummarySelect == \E e \in SummaryExercises : SetExerciseType(e)
SummaryReport == \E api \in ApiOutcomes : GenerateReport(api)

NextSummary ==
    \/ SummarySelect /\ UNCHANGED drv
    \/ CanFeed /\ FeedSquats /\ UNCHANGED drv
    \/ CanFeed /\ FeedPushups /\ UNCHANGED drv
    \/ CanFeed /\ FeedBroad /\ UNCHANGED drv
    \/ reports = << >> /\ SummaryReport /\ UNCHANGED drv

SpecSummary == InitSummary /\ [][NextSummary]_vars

\* the service call of a report gave no summary: it raised, its body could not
\* be parsed, or its status was not 200
ServiceFailed(api) == api.raised \/ api.body = "unparsable" \/ api.status # 200

\* C13: whatever the outcome of the service call, the report is made and its
\* ai_analysis is a record of summary, key_findings and recommendations; when
\* the call failed it is the rule-based summary.
C13_SummaryAlwaysReturned ==
    \A i \in 1..Len(reports) :
        /\ DOMAIN reports[i].ai_analysis = {"summary", "key_findings", "recommendations"}
        /\ reports[i].ai_analysis.key_findings # << >>
        /\ reports[i].ai_analysis.recommendations # << >>
        /\ ServiceFailed(reports[i].api) =>
               reports[i].ai_analysis = reports[i].rule_based_analysis

\* a report of a squat session with a form finding, made after the service
\* answered with a status other than 200
C13_Witness ==
    /\ reports # << >>
    /\ reports[1].api.status = 503
    /\ reports[1].api.body = "text"
    /\ reports[1].total_frames >= 2
    /\ reports[1].ai_analysis.key_findings[1] = "Frequent knee valgus (inward collapse) during descent."

\* ---------------------------------------------------------------------
\* SpecSnapshot: a session of squats or plank whose caller keeps the first
\* report it is returned while further frames are processed.  drv.report
\* holds that report and drv.read its contents as read when it was returned.
\* ---------------------------------------------------------------------
SnapshotExercises == {"SQUATS", "PLANK_HOLD"}

InitSnapshot == NewAnalyzer /\ drv = [mode |-> "snapshot", report |-> << >>, read |-> << >>]

SnapshotSelect == \E e \in SnapshotExercises : SetExerciseType(e)

SnapshotReport ==
    /\ drv.report = << >>
    /\ GenerateReport(Unreachable)
    /\ drv' = [drv EXCEPT !.report = <<BuildReport(Unreachable)>>,
                          !.read = <<ReportContents(BuildReport(Unreachable))>>]

NextSnapshot ==
    \/ SnapshotSelect /\ UNCHANGED drv
    \/ CanFeed /\ FeedSquats /\ UNCHANGED drv
    \/ CanFeed /\ FeedPlank /\ UNCHANGED drv
    \/ SnapshotReport

SpecSnapshot == InitSnapshot /\ [][NextSnapshot]_vars

\* C17: the contents of a report that was returned stay what they were when it
\* was returned, whatever frames are processed afterwards.
C17_ReportIsSnapshot ==
    \A i \in 1..Len(drv.report) : ReportContents(drv.report[i]) = drv.read[i]

\* ---------------------------------------------------------------------
\* SpecBaseline: a vertical-jump or a broad-jump session from its first frame.
\* The hip of a broad-jump calibration frame sways around BaselineHip by the
\* session's sway, freely on the last frames of the calibration; frames follow
\* the calibration, and a frame may come without landmarks.  drv.hips holds
\* the hip position of every frame with landmarks, in order.
\* ---------------------------------------------------------------------
MaxAfterBaseline == 3
MaxLostFrames == 1

Sways == {0, 7, 20}
FreeCalibrationFrames == 3

\* <<avg_hip_x, left_knee_angle, right_knee_angle, hip_sway, avg_alignment>>
AfterBaselineFrames == BroadFrames \cup {<<650, Deg(170), Deg(170), Frac20(0), Frac20(19)>>}

InitBaseline ==
    /\ NewAnalyzer
    /\ drv \in {[mode |-> "baseline", hips |-> << >>, sway |-> sw, lost |-> 0] : sw \in Sways}

BaselineSelect ==
    /\ \E e \in {"VERTICAL_JUMP", "STANDING_BROAD_JUMP"} : SetExerciseType(e)
    /\ UNCHANGED drv

\* the hips a calibration frame may show, the frames before it given
CalibrationHips ==
    IF Len(drv.hips) + FreeCalibrationFrames >= CALIBRATION_FRAMES
    THEN {BaselineHip - drv.sway, BaselineHip + drv.sway}
    ELSE {BaselineHip + drv.sway * ((Len(drv.hips) % 3) - 1)}

BaselineCalibrate ==
    /\ Len(drv.hips) < CALIBRATION_FRAMES
    /\ \E hip \in CalibrationHips :
          /\ BroadFrame(hip, StraightKnee)
          /\ drv' = [drv EXCEPT !.hips = Append(@, hip)]

BaselineBroadFrame ==
    /\ Len(drv.hips) >= CALIBRATION_FRAMES
    /\ Len(drv.hips) < CALIBRATION_FRAMES + MaxAfterBaseline
    /\ \E f \in AfterBaselineFrames :
          /\ ProcessFrameBroadJump(f[1], f[2], f[3], f[4], f[5])
          /\ drv' = [drv EXCEPT !.hips = Append(@, f[1])]

BaselineJumpFrame ==
    /\ Len(drv.hips) < MaxFrames
    /\ \E f \in JumpFrames :
          /\ ProcessFrameVerticalJump(f[1], f[2], f[3], f[4])
          /\ drv' = [drv EXCEPT !.hips = Append(@, f[1])]

BaselineLostFrame ==
    /\ exercise_type # NoExercise
    /\ drv.lost < MaxLostFrames
    /\ ProcessFrameNoLandmarks
    /\ drv' = [drv EXCEPT !.lost = @ + 1]

NextBaseline ==
    \/ BaselineSelect
    \/ BaselineCalibrate
    \/ BaselineBroadFrame
    \/ BaselineJumpFrame
    \/ BaselineLostFrame

SpecBaseline == InitBaseline /\ [][NextBaseline]_vars

\* C19: in a vertical-jump session the baseline is the hip height of the first
\* frame with landmarks, and stays so; in a broad-jump session the phase is
\* calibrating during the first 29 frames with landmarks and at_baseline on
\* the 30th, and from then on the baseline is the mean of those 30 positions
\* (kept as their sum).
C19_BaselineFixed ==
    /\ exercise_type = "VERTICAL_JUMP" =>
          baseline_hip_height = IF drv.hips = << >> THEN None ELSE drv.hips[1]
    /\ exercise_type = "STANDING_BROAD_JUMP" =>
          /\ Len(drv.hips) < 30 => (rep_phase = "calibrating" /\ ~baseline_established)
          /\ Len(drv.hips) = 30 => rep_phase = "at_baseline"
          /\ Len(drv.hips) >= 30 =>
                /\ baseline_established
                /\ baseline_hip_x = SeqSum(SubSeq(drv.hips, 1, 30))

\* a broad-jump session calibrated on swaying hips that has left the baseline
\* phase, a frame without landmarks among its frames
C19_Witness ==
    /\ exercise_type = "STANDING_BROAD_JUMP"
    /\ Len(drv.hips) > 31
    /\ drv.hips[29] # drv.hips[30]
    /\ baseline_hip_x # 30 * BaselineHip
    /\ rep_phase \notin {"calibrating", "at_baseline"}
    /\ drv.lost > 0

\* ---------------------------------------------------------------------
\* SpecTwo: two sessions, each with its own analyzer.  First each session's
\* frames are chosen and processed alone on a new analyzer (stage "solo"),
\* the state after every call being kept in drv.trace; then two new analyzers
\* process the same frames, the worker switching between the sessions at any
\* point (stage "both").  The variables are the fields of the analyzer being
\* worked on, drv.other those of the other one.  drv.done counts the calls
\* each session has made in the stage, drv.fed holds each session's frames.
\* ---------------------------------------------------------------------
MaxScript == 2

TwoExercises == {"SQUATS", "PUSHUPS", "PLANK_HOLD"}

\* the fields of the analyzer being worked on, and the count of its frames
SessionState ==
    [exercise_type |-> exercise_type, rep_count |-> rep_count, rep_phase |-> rep_phase,
     feedback_history |-> feedback_history, metrics_history |-> metrics_history,
     start_time |-> start_time, form_errors |-> form_errors,
     rep_quality_scores |-> rep_quality_scores, is_correct_form |-> is_correct_form,
     all_feedback_per_frame |-> all_feedback_per_frame,
     prev_torso_angle |-> prev_torso_angle, baseline_hip_height |-> baseline_hip_height,
     broad |-> BroadState, plank_start_time |-> plank_start_time, shuttle |-> shuttle,
     frames_fed |-> frames_fed]

\* analyzers that all count their form errors in one dict
WorkOnSharingErrors(st) ==
    /\ exercise_type' = st.exercise_type
    /\ rep_count' = st.rep_count
    /\ rep_phase' = st.rep_phase
    /\ feedback_history' = st.feedback_history
    /\ metrics_history' = st.metrics_history
    /\ start_time' = st.start_time
    /\ form_errors' = form_errors
    /\ rep_quality_scores' = st.rep_quality_scores
    /\ is_correct_form' = st.is_correct_form
    /\ all_feedback_per_frame' = st.all_feedback_per_frame
    /\ prev_torso_angle' = st.prev_torso_angle
    /\ baseline_hip_height' = st.baseline_hip_height
    /\ jump_distances' = st.broad.jump_distances
    /\ best_distance' = st.broad.best_distance
    /\ current_jump_distance' = st.broad.current_jump_distance
    /\ jump_attempts' = st.broad.jump_attempts
    /\ baseline_established' = st.broad.baseline_established
    /\ calibration_frames' = st.broad.calibration_frames
    /\ calibration_positions' = st.broad.calibration_positions
    /\ baseline_hip_x' = st.broad.baseline_hip_x
    /\ jump_trajectory' = st.broad.jump_trajectory
    /\ furthest_position_this_jump' = st.broad.furthest_position_this_jump
    /\ landing_stability_counter' = st.broad.landing_stability_counter
    /\ plank_start_time' = st.plank_start_time
    /\ shuttle' = st.shuttle
    /\ frames_fed' = st.frames_fed
    /\ UNCHANGED <<now, reports>>

\* the worker turns to the analyzer whose fields are st: every field of an
\* analyzer is an attribute of the instance, made by its own __init__
WorkOn(st) ==
    /\ exercise_type' = st.exercise_type
    /\ rep_count' = st.rep_count
    /\ rep_phase' = st.rep_phase
    /\ feedback_history' = st.feedback_history
    /\ metrics_history' = st.metrics_history
    /\ start_time' = st.start_time
    /\ form_errors' = st.form_errors
    /\ rep_quality_scores' = st.rep_quality_scores
    /\ is_correct_form' = st.is_correct_form
    /\ all_feedback_per_frame' = st.all_feedback_per_frame
    /\ prev_torso_angle' = st.prev_torso_angle
    /\ baseline_hip_height' = st.baseline_hip_height
    /\ jump_distances' = st.broad.jump_distances
    /\ best_distance' = st.broad.best_distance
    /\ current_jump_distance' = st.broad.current_jump_distance
    /\ jump_attempts' = st.broad.jump_attempts
    /\ baseline_established' = st.broad.baseline_established
    /\ calibration_frames' = st.broad.calibration_frames
    /\ calibration_positions' = st.broad.calibration_positions
    /\ baseline_hip_x' = st.broad.baseline_hip_x
    /\ jump_trajectory' = st.broad.jump_trajectory
    /\ furthest_position_this_jump' = st.broad.furthest_position_this_jump
    /\ landing_stability_counter' = st.broad.landing_stability_counter
    /\ plank_start_time' = st.plank_start_time
    /\ shuttle' = st.shuttle
    /\ frames_fed' = st.frames_fed
    /\ UNCHANGED <<now, reports>>

InitTwo ==
    /\ NewAnalyzer
    /\ drv \in {[mode |-> "two", stage |-> "solo", who |-> 1, ex |-> <<e1, e2>>,
                 done |-> <<0, 0>>, fed |-> <<<< >>, << >>>>,
                 trace |-> <<<<SessionState>>, <<SessionState>>>>,
                 fresh |-> SessionState, other |-> SessionState] :
                e1 \in TwoExercises, e2 \in TwoExercises}

FramesOf(e) ==
    CASE e = "SQUATS" -> SquatFrames
      [] e = "PUSHUPS" -> PushupFrames
      [] e = "PLANK_HOLD" -> PlankFrames

\* process_frame of frame f in a session of exercise e
TwoProcess(e, f) ==
    \/ e = "SQUATS" /\ ProcessFrameSquats(f[1], f[2], f[3])
    \/ e = "PUSHUPS" /\ ProcessFramePushups(f[1], f[2])
    \/ e = "PLANK_HOLD" /\ ProcessFramePlank(f[1], f[2])

Stepped == [drv EXCEPT !.done[drv.who] = @ + 1]

TwoSoloSelect ==
    /\ drv.stage = "solo"
    /\ drv.done[drv.who] = 0
    /\ SetExerciseType(drv.ex[drv.who])
    /\ drv' = [Stepped EXCEPT !.trace[drv.who] = Append(@, SessionState')]

TwoSoloFrame ==
    /\ drv.stage = "solo"
    /\ drv.done[drv.who] \in 1..MaxScript
    /\ \E f \in FramesOf(drv.ex[drv.who]) :
          /\ TwoProcess(drv.ex[drv.who], f)
          /\ drv' = [Stepped EXCEPT !.fed[drv.who] = Append(@, f),
                                    !.trace[drv.who] = Append(@, SessionState')]

\* the session that ran alone is over: the next one starts on a new analyzer
TwoSoloOver ==
    /\ drv.stage = "solo"
    /\ drv.done[drv.who] = MaxScript + 1
    /\ WorkOn(drv.fresh)
    /\ drv' = IF drv.who = 1 THEN [drv EXCEPT !.who = 2]
              ELSE [drv EXCEPT !.stage = "both", !.who = 1, !.done = <<0, 0>>]

TwoSelect ==
    /\ drv.stage = "both"
    /\ drv.done[drv.who] = 0
    /\ SetExerciseType(drv.ex[drv.who])
    /\ drv' = Stepped

TwoFrame ==
    /\ drv.stage = "both"
    /\ drv.done[drv.who] \in 1..MaxScript
    /\ TwoProcess(drv.ex[drv.who], drv.fed[drv.who][drv.done[drv.who]])
    /\ drv' = Stepped

TwoSwitch ==
    /\ drv.stage = "both"
    /\ WorkOn(drv.other)
    /\ drv' = [drv EXCEPT !.who = 3 - @, !.other = SessionState]

NextTwo ==
    \/ TwoSoloSelect
    \/ TwoSoloFrame
    \/ TwoSoloOver
    \/ TwoSelect
    \/ TwoFrame
    \/ TwoSwitch

SpecTwo == InitTwo /\ [][NextTwo]_vars

MaxPhaseFrames == 4
MaxJumpFrames == 6

PhaseExercises == {"SQUATS", "PUSHUPS", "SITUPS", "VERTICAL_JUMP"}

\* <<torso_angle, alignment_score>> of a squat frame, upright and leaning
SquatPostures == {<<Deg(80), Frac20(19)>>, <<Deg(50), Frac20(10)>>}
PhaseKneeAngles == {Deg(170), Deg(155), Deg(130), Deg(105), Deg(60)}
PhaseElbowAngles == {Deg(170), Deg(155), Deg(130), Deg(95), Deg(60)}
PhaseAlignments == {Frac20(19), Frac20(10)}
PhaseTorsoAngles == {Deg(10), Deg(18), Deg(40), Deg(57), Deg(70)}
\* <<knee_angle, spine_alignment>> of a sit-up frame
SitupPostures == {<<Deg(90), Frac20(19)>>, <<Deg(150), Frac20(5)>>}
\* <<avg_hip_height, left_knee_angle, right_knee_angle, avg_alignment>>
PhaseJumpFrames == JumpFrames \cup {<<400, Deg(100), Deg(100), Frac20(19)>>}

InitPhases ==
    /\ NewAnalyzer
    /\ drv = [mode |-> "phases", framed |-> FALSE, phase |-> "", count |-> 0,
              errors |-> << >>]

\* the analyzer as it is before the frame being fed
BeforeFrame ==
    [mode |-> "phases", framed |-> TRUE, phase |-> rep_phase, count |-> rep_count,
     errors |-> form_errors]

PhaseSelect ==
    /\ exercise_type = NoExercise
    /\ \E e \in PhaseExercises : SetExerciseType(e)
    /\ UNCHANGED drv

PhaseSquatFrame ==
    /\ frames_fed < MaxPhaseFrames
    /\ \E knee \in PhaseKneeAngles, p \in SquatPostures : ProcessFrameSquats(knee, p[1], p[2])
    /\ drv' = BeforeFrame

PhasePushupFrame ==
    /\ frames_fed < MaxPhaseFrames
    /\ \E elbow \in PhaseElbowAngles, al \in PhaseAlignments : ProcessFramePushups(elbow, al)
    /\ drv' = BeforeFrame

PhaseSitupFrame ==
    /\ frames_fed < MaxPhaseFrames
    /\ \E torso \in PhaseTorsoAngles, p \in SitupPostures : ProcessFrameSitups(torso, p[1], p[2])
    /\ drv' = BeforeFrame

PhaseJumpFrame ==
    /\ frames_fed < MaxJumpFrames
    /\ \E f \in PhaseJumpFrames : ProcessFrameVerticalJump(f[1], f[2], f[3], f[4])
    /\ drv' = BeforeFrame

NextPhases ==
    \/ PhaseSelect
    \/ PhaseSquatFrame
    \/ PhasePushupFrame
    \/ PhaseSitupFrame
    \/ PhaseJumpFrame

SpecPhases == InitPhases /\ [][NextPhases]_vars

\* C21: in a squat or push-up session a frame adds 1 to rep_count if and only
\* if the phase before the frame is going_up and the phase after it is at_top;
\* every other frame, one that goes from at_bottom straight to at_top or stays
\* at_top included, leaves rep_count as it was.
C21_RepOnReturnToTop ==
    (exercise_type \in {"SQUATS", "PUSHUPS"} /\ drv.framed) =>
        /\ rep_count \in {drv.count, drv.count + 1}
        /\ rep_count = drv.count + 1 <=> (drv.phase = "going_up" /\ rep_phase = "at_top")

\* the last frame of a squat or push-up session brought the phase from
\* going_up to at_top and the rep was counted
C21_Witness ==
    /\ exercise_type \in {"SQUATS", "PUSHUPS"}
    /\ drv.framed
    /\ drv.phase = "going_up"
    /\ rep_phase = "at_top"
    /\ rep_count = 1

\* C22: in a sit-up session a frame adds 1 to rep_count if and only if the
\* phase before the frame is going_down and the phase after it is at_bottom,
\* which a torso angle of at most 15 degrees gives; a frame that comes back to
\* at_bottom from going_up or stays at_bottom counts no rep.
C22_RepOnReturnToBottom ==
    (exercise_type = "SITUPS" /\ drv.framed) =>
        /\ rep_count \in {drv.count, drv.count + 1}
        /\ rep_count = drv.count + 1 <=> (drv.phase = "going_down" /\ rep_phase = "at_bottom")
        /\ drv.phase = "going_down" =>
              (rep_phase = "at_bottom" <=>
                  metrics_history[Len(metrics_history)].torso_angle <= Deg(DOWN_TORSO_ANGLE))

\* the last frame of a sit-up session brought the phase from going_down to
\* at_bottom and the rep was counted
C22_Witness ==
    /\ exercise_type = "SITUPS"
    /\ drv.framed
    /\ drv.phase = "going_down"
    /\ rep_phase = "at_bottom"
    /\ rep_count = 1

\* the steps of the vertical-jump cycle
JumpCycle ==
    {<<"at_baseline", "preparing">>, <<"preparing", "takeoff">>, <<"takeoff", "in_air">>,
     <<"in_air", "landing">>, <<"landing", "at_baseline">>}

\* C23: in a vertical-jump session a frame leaves the phase as it was or moves
\* it to the next state of the cycle at_baseline, preparing, takeoff, in_air,
\* landing, at_baseline, and it adds 1 to rep_count exactly when it moves the
\* phase from in_air to landing.
C23_JumpCycleOnly ==
    (exercise_type = "VERTICAL_JUMP" /\ drv.framed) =>
        /\ rep_phase = drv.phase \/ <<drv.phase, rep_phase>> \in JumpCycle
        /\ rep_count \in {drv.count, drv.count + 1}
        /\ rep_count = drv.count + 1 <=> (drv.phase = "in_air" /\ rep_phase = "landing")

\* C27: in a squat or push-up session a frame that ends in the phase at_top
\* changes no form_errors counter and is marked as correct form, whatever the
\* angles and the alignment of the frame.
C27_TopFrameNotPenalised ==
    (exercise_type \in {"SQUATS", "PUSHUPS"} /\ drv.framed /\ rep_phase = "at_top") =>
        /\ form_errors = drv.errors
        /\ is_correct_form

\* a squat frame that ends at_top with a leaning torso and knees out of line,
\* after frames that were penalised
C27_Witness ==
    /\ exercise_type = "SQUATS"
    /\ drv.framed
    /\ rep_phase = "at_top"
    /\ metrics_history[Len(metrics_history)].torso_angle = Deg(50)
    /\ metrics_history[Len(metrics_history)].alignment_score = Frac20(10)
    /\ drv.errors.knee_alignment > 0

\* C31: in a squat or push-up session a frame that adds 1 to rep_count comes
\* after a frame that ended at_bottom, with no frame ending at_top between the
\* two: a movement that never reaches the bottom is not counted.
C31_RepNeedsBottom ==
    (exercise_type \in {"SQUATS", "PUSHUPS"} /\ drv.framed /\ rep_count = drv.count + 1) =>
        \E j \in 1..(Len(metrics_history) - 1) :
            /\ metrics_history[j].phase = "at_bottom"
            /\ \A k \in (j + 1)..(Len(metrics_history) - 1) :
                   metrics_history[k].phase # "at_top"

\* the knee angle of a squat frame, the elbow angle of a push-up frame
JointAngle(m) == IF "knee_angle" \in DOMAIN m THEN m.knee_angle ELSE m.elbow_angle

\* C32: in a squat or push-up session a frame fed with the same joint angle as
\* the frame before it ends in the same phase as that frame, so the phase does
\* not alternate while a position is held.
C32_HeldPositionStable ==
    exercise_type \in {"SQUATS", "PUSHUPS"} =>
        \A i \in 2..Len(metrics_history) :
            JointAngle(metrics_history[i]) = JointAngle(metrics_history[i - 1]) =>
                metrics_history[i].phase = metrics_history[i - 1].phase

\* ---------------------------------------------------------------------
\* SpecJumps: a broad-jump session of several jumps.  Each jump goes as in
\* SpecBroad; once the jumper has stood up they walk back to the start and
\* jump again.  drv.jumps is the number of the jump under way.
\* ---------------------------------------------------------------------
MaxJumps == 2

InitJumps ==
    /\ NewAnalyzer
    /\ drv = [mode |-> "jumps", stage |-> "calibrate", flight |-> 0, land |-> BaselineHip,
              peak |-> 0, jumps |-> 1]

JumpWalkBack ==
    /\ drv.stage = "stood"
    /\ drv.jumps < MaxJumps
    /\ BroadFrame(BaselineHip, StraightKnee)
    /\ drv' = [drv EXCEPT !.stage = "crouch", !.flight = 0, !.land = BaselineHip,
                          !.peak = 0, !.jumps = @ + 1]

NextJumps ==
    \/ BroadSelect
    \/ BroadCalibrate
    \/ BroadCrouch
    \/ BroadPush
    \/ BroadLift
    \/ BroadFly
    \/ BroadLand
    \/ BroadSettle
    \/ BroadStandUp
    \/ JumpWalkBack

SpecJumps == InitJumps /\ [][NextJumps]_vars

\* C34: in a broad-jump session jump_distances has one entry per attempt,
\* best_distance is the greatest of them (0 while there is none), and
\* rep_count is 0.
C34_BroadJumpBookkeeping ==
    exercise_type = "STANDING_BROAD_JUMP" =>
        /\ Len(jump_distances) = jump_attempts
        /\ best_distance = SeqMax(jump_distances)
        /\ rep_count = 0

\* two jumps recorded, the second one shorter than the first
C34_Witness ==
    /\ exercise_type = "STANDING_BROAD_JUMP"
    /\ jump_attempts = 2
    /\ jump_distances[2] < jump_distances[1]
    /\ best_distance = jump_distances[1]

\* ---------------------------------------------------------------------
\* SpecHold: a plank session whose holds may be interrupted: a frame is
\* inside the holding ranges or has the hips sagging, the clock advancing
\* between frames.  drv.times holds the time of each frame fed.
\* ---------------------------------------------------------------------
MaxHoldFrames == 4

\* <<body_alignment_angle, avg_elbow_angle>>: a straight plank, sagging hips
HoldFrames == {<<Deg(180), Deg(90)>>, <<Deg(140), Deg(90)>>}

InitHold == NewAnalyzer /\ drv = [mode |-> "hold", times |-> << >>]

HoldFrame ==
    /\ Len(drv.times) < MaxHoldFrames
    /\ \E f \in HoldFrames : ProcessFramePlank(f[1], f[2])
    /\ drv' = [drv EXCEPT !.times = Append(@, now)]

NextHold ==
    \/ PlankSelect
    \/ HoldFrame
    \/ PlankWait

SpecHold == InitHold /\ [][NextHold]_vars

\* C36: in a plank session every metrics entry whose phase is not_holding has
\* hold_duration 0, and so has the entry of the first holding frame after a
\* frame that was not_holding.
C36_HoldDurationOfCurrentHold ==
    exercise_type = "PLANK_HOLD" =>
        \A i \in 1..Len(metrics_history) :
            /\ metrics_history[i].phase = "not_holding" =>
                  metrics_history[i].hold_duration = 0
            /\ (i > 1 /\ metrics_history[i].phase = "holding"
                      /\ metrics_history[i - 1].phase = "not_holding") =>
                  metrics_history[i].hold_duration = 0

\* ---------------------------------------------------------------------
\* SpecSitups: a sit-up session on a new analyzer, long enough for two reps.
\* drv.incs lists the frames (by their number in the session) that added to
\* rep_count.
\* ---------------------------------------------------------------------
MaxSitupFrames == 7

\* lying flat, just off the floor, half way, sitting up
SitupTorsoAngles == {Deg(10), Deg(18), Deg(40), Deg(70)}

InitSitups ==
    /\ NewAnalyzer
    /\ drv = [mode |-> "situps", incs |-> << >>]

SitupSelect ==
    /\ exercise_type = NoExercise
    /\ SetExerciseType("SITUPS")
    /\ UNCHANGED drv

SitupFrame ==
    /\ frames_fed < MaxSitupFrames
    /\ \E torso \in SitupTorsoAngles : ProcessFrameSitups(torso, Deg(90), Frac20(19))
    /\ drv' = [drv EXCEPT !.incs = IF rep_count' > rep_count
                                   THEN Append(@, Len(metrics_history'))
                                   ELSE @]

NextSitups ==
    \/ SitupSelect
    \/ SitupFrame

SpecSitups == InitSitups /\ [][NextSitups]_vars

\* C33: in a sit-up session every frame that adds to rep_count comes after a
\* frame that ended at_top, that frame being later than the previous frame
\* that added to rep_count (later than the session start for the first one).
C33_RepNeedsTop ==
    \A k \in 1..Len(drv.incs) :
        \E j \in ((IF k = 1 THEN 0 ELSE drv.incs[k - 1]) + 1)..(drv.incs[k] - 1) :
            metrics_history[j].phase = "at_top"

\* two reps counted, the second one after a torso that came to rest just off
\* the floor and rose again without sitting up before the full situp
C33_Witness ==
    /\ exercise_type = "SITUPS"
    /\ rep_count = 2
    /\ Len(drv.incs) = 2
    /\ drv.incs[2] - drv.incs[1] > 3

\* ---------------------------------------------------------------------
\* SpecShuttle: a shuttle-run session on a new analyzer.  The hip of each
\* frame is at one of three positions, and the clock advances by 2.0 s or by
\* 2.5 s before each frame.  drv holds what the analyzer held just before the
\* last frame and the time of that frame (drv.framed says whether a frame
\* was fed at all, drv.waited whether the clock has advanced since).
\* ---------------------------------------------------------------------
MaxShuttleFrames == 6

ShuttleHips == {440, 500, 560}
ShuttleSteps == {Sec(2), Sec(2) + 1}

InitShuttle ==
    /\ NewAnalyzer
    /\ drv = [mode |-> "shuttle", framed |-> FALSE, waited |-> FALSE, at |-> 0,
              phase |-> "", shuttle |-> ShuttleInit, hip |-> 0]

ShuttleSelect ==
    /\ exercise_type = NoExercise
    /\ SetExerciseType("SHUTTLE_RUN")
    /\ UNCHANGED drv

ShuttleWait ==
    /\ exercise_type = "SHUTTLE_RUN"
    /\ ~drv.waited
    /\ frames_fed < MaxShuttleFrames
    /\ \E dt \in ShuttleSteps : Advance(dt)
    /\ drv' = [drv EXCEPT !.waited = TRUE]

ShuttleFrame ==
    /\ drv.waited
    /\ \E hip \in ShuttleHips :
          /\ ProcessFrameShuttleRun(hip, Deg(120), Deg(120), GoodAlignment)
          /\ drv' = [mode |-> "shuttle", framed |-> TRUE, waited |-> FALSE, at |-> now,
                     phase |-> rep_phase, shuttle |-> shuttle, hip |-> hip]

NextShuttle ==
    \/ ShuttleSelect
    \/ ShuttleWait
    \/ ShuttleFrame

SpecShuttle == InitShuttle /\ [][NextShuttle]_vars

\* the last frame moved the phase into completed
EnteredCompleted == drv.framed /\ drv.phase # "completed" /\ rep_phase = "completed"

\* C25: in a shuttle-run session the frame on which the phase enters completed
\* adds 1 to shuttle_attempts and appends one entry to shuttle_runs, and no
\* other frame does, so that a session ending right after that frame has the
\* attempt counted; the phase enters completed only from turning, the turn
\* having lasted more than 2.0 seconds.
C25_AttemptOnEnteringCompleted ==
    drv.framed =>
        /\ shuttle.shuttle_attempts
              = drv.shuttle.shuttle_attempts + (IF EnteredCompleted THEN 1 ELSE 0)
        /\ Len(shuttle.shuttle_runs)
              = Len(drv.shuttle.shuttle_runs) + (IF EnteredCompleted THEN 1 ELSE 0)
        /\ EnteredCompleted =>
              /\ drv.phase = "turning"
              /\ shuttle.turn_start_time # None
              /\ drv.at - shuttle.turn_start_time > Sec(2)

\* the directions of movement, left and right
Moving == {"left", "right"}

\* C26: in a shuttle-run session a frame leaves direction_changes as it was or
\* adds 1 to it, and it adds 1 only when the direction before the frame and
\* the direction found on the frame are left and right or right and left, and
\* the hip is more than 8% of the frame width away from the position of the
\* last counted change, or no change was counted since the last completed
\* run; the count is kept when a shuttle run completes.
C26_ChangeOnlyOnFlip ==
    drv.framed =>
        /\ shuttle.direction_changes \in
              {drv.shuttle.direction_changes, drv.shuttle.direction_changes + 1}
        /\ shuttle.direction_changes = drv.shuttle.direction_changes + 1 =>
              /\ drv.shuttle.current_direction \in Moving
              /\ shuttle.current_direction \in Moving
              /\ shuttle.current_direction # drv.shuttle.current_direction
              /\ \/ drv.shuttle.last_direction_change_pos = None
                 \/ PixelsOver(Abs(drv.hip - drv.shuttle.last_direction_change_pos),
                               reference_metrics.direction_change_threshold, FrameWidth)

MaxScoreFrames == 15

\* the angles of one rep, in degrees: bottom, up, top
ScoreCycle == <<60, 130, 170>>
ScoreAngle == Deg(ScoreCycle[(frames_fed % Len(ScoreCycle)) + 1])

\* the frame to come is the top of a rep
AtScoreTop == ScoreAngle > Deg(TOP_KNEE_ANGLE)

InitScore == NewAnalyzer /\ drv = [mode |-> "score"]

ScoreSelect ==
    /\ exercise_type = NoExercise
    /\ \E e \in {"SQUATS", "PUSHUPS"} : SetExerciseType(e)
    /\ UNCHANGED drv

ScoreSquatFrame ==
    /\ frames_fed < MaxScoreFrames
    /\ \E p \in (IF AtScoreTop THEN {<<UprightTorso, GoodAlignment>>} ELSE SquatPostures) :
          ProcessFrameSquats(ScoreAngle, p[1], p[2])
    /\ UNCHANGED drv

ScorePushupFrame ==
    /\ frames_fed < MaxScoreFrames
    /\ \E al \in (IF AtScoreTop THEN {GoodAlignment} ELSE PhaseAlignments) :
          ProcessFramePushups(ScoreAngle, al)
    /\ UNCHANGED drv

ScoreReport ==
    /\ reports = << >>
    /\ Report
    /\ UNCHANGED drv

NextScore ==
    \/ ScoreSelect
    \/ ScoreSquatFrame
    \/ ScorePushupFrame
    \/ ScoreReport

SpecScore == InitScore /\ [][NextScore]_vars

\* 60 + 25*form_accuracy + 0.10*rep_quality_avg + 5*deviation_score
\* + min(2*rep_count, 10), clamped to [30, 100], over the denominator
\* frames * 10 * reps scored * 180 * deviations counted (180 = 45 degrees / 5)
StatedScore ==
    LET t == Len(feedback_history)
        c == CorrectFrames(feedback_history, ScorePositiveMsgs)
        n == IF rep_quality_scores = << >> THEN 1 ELSE Len(rep_quality_scores)
        S == IF rep_quality_scores = << >> THEN 50 ELSE SeqSum(rep_quality_scores)
        dev == TotalDeviation(metrics_history)
        k == IF dev.count = 0 THEN 1 ELSE dev.count
        D == t * 10 * n * 180 * k
        sum == 60 * D + 25 * c * (10 * n * 180 * k) + S * (t * 180 * k)
                 + (5 * 180 * k - dev.total) * (t * 10 * n)
                 + (IF 2 * rep_count < 10 THEN 2 * rep_count ELSE 10) * D
    IN  [num |-> IF sum > 100 * D THEN 100 * D ELSE IF sum < 30 * D THEN 30 * D ELSE sum,
         den |-> D]

\* C28: in a session of a composite-scored exercise with a frame in its
\* history, the overall score, as calculate_overall_score computes it and as a
\* report carries it, is clamp(60 + 25*form_accuracy + 0.10*rep_quality_avg
\* + 5*deviation_score + min(2*rep_count, 10), 30, 100), rep_quality_avg being
\* 50 when no rep was scored and deviation_score being 1 minus the mean of the
\* positive deviations capped at 45, over 45 (1 when there is none).
C28_ScoreIsStatedSum ==
    (exercise_type # "STANDING_BROAD_JUMP" /\ metrics_history # << >>) =>
        /\ calculate_overall_score = StatedScore
        /\ \A i \in 1..Len(reports) : reports[i].overall_score = StatedScore

\* a report of five reps, the fifth scored on its last 10 frames and not at
\* 50, with deviations counted, the sum reaching the upper clamp
C28_Witness ==
    /\ rep_count = 5
    /\ rep_quality_scores[5] # 50
    /\ calculate_overall_score.num = 100 * calculate_overall_score.den
    /\ TotalDeviation(metrics_history).count > 0
    /\ reports # << >>

\* ---------------------------------------------------------------------
\* SpecRequest: one request to analyze_test (routes.py).  The analyzer of the
\* request is the analyzer of the module; drv holds the rest of the request:
\* where it stands (at), whether the temporary directory exists (temp_dir),
\* whether the frame loop raised (loop_failed), whether
\* generate_comprehensive_report was called (report_called), whether the
\* cleanup is scheduled as a background task (cleanup_scheduled), and the
\* success field of the response (success, "none" until the request answers).
\* ---------------------------------------------------------------------
MaxRequestFrames == 3

RequestExercises == {"SQUATS", "PUSHUPS"}

Received ==
    [mode |-> "request", at |-> "received", temp_dir |-> "none", loop_failed |-> FALSE,
     report_called |-> FALSE, cleanup_scheduled |-> FALSE, success |-> "none"]

\* the analyzer and its surroundings, which the steps of the route leave alone
sessionVars == <<analyzerVars, situpVars, jumpVars, broadVars, plankVars, shuttleVars, now,
                 frames_fed, reports>>

InitRequest == NewAnalyzer /\ drv = Received

\* validate_exercise_type or the check of the file name fails: the request
\* answers before an analyzer or a temporary directory is made
RequestRejected ==
    /\ drv.at = "received"
    /\ drv' = [drv EXCEPT !.at = "answered", !.success = FALSE]
    /\ UNCHANGED sessionVars

\* ExerciseAnalyzer(user_profile), set_exercise_type, tempfile.mkdtemp()
RequestAccepted ==
    /\ drv.at = "received"
    /\ \E e \in RequestExercises : SetExerciseType(e)
    /\ drv' = [drv EXCEPT !.at = "opening", !.temp_dir = "exists"]

\* process_video_analysis: the video cannot be opened, HTTPException(400)
RequestVideoUnreadable ==
    /\ drv.at = "opening"
    /\ drv' = [drv EXCEPT !.at = "raised"]
    /\ UNCHANGED sessionVars

RequestVideoOpened ==
    /\ drv.at = "opening"
    /\ drv' = [drv EXCEPT !.at = "frames"]
    /\ UNCHANGED sessionVars

\* one turn of the frame loop: the frame is read, processed and written
RequestFrame ==
    /\ drv.at = "frames"
    /\ frames_fed < MaxRequestFrames
    /\ \/ FeedSquats
       \/ FeedPushups
       \/ ProcessFrameNoLandmarks
    /\ UNCHANGED drv

\* one turn of the frame loop fails and the exception is kept from the caller
RequestFrameRaisesUnnoticed ==
    /\ drv.at = "frames"
    /\ drv' = [drv EXCEPT !.at = "report", !.loop_failed = TRUE]
    /\ UNCHANGED sessionVars

\* one turn of the frame loop raises (in cap.read, process_frame or out.write):
\* the except clause raises HTTPException(500), the finally clause releases
\* the capture and the writer
RequestFrameRaises ==
    /\ drv.at = "frames"
    /\ drv' = [drv EXCEPT !.at = "raised", !.loop_failed = TRUE]
    /\ UNCHANGED sessionVars

\* cap.read() returns no frame: the loop ends and the output path is returned
RequestEndOfVideo ==
    /\ drv.at = "frames"
    /\ drv' = [drv EXCEPT !.at = "report"]
    /\ UNCHANGED sessionVars

\* generate_comprehensive_report writes and stores the report
RequestReport ==
    /\ drv.at = "report"
    /\ Report
    /\ drv' = [drv EXCEPT !.at = "reported", !.report_called = TRUE]

\* generate_comprehensive_report or the move of the video raises
RequestReportRaises ==
    /\ drv.at \in {"report", "reported"}
    /\ drv' = [drv EXCEPT !.at = "raised", !.report_called = TRUE]
    /\ UNCHANGED sessionVars

\* the video is moved, the cleanup is scheduled, the request answers
RequestSucceeds ==
    /\ drv.at = "reported"
    /\ drv' = [drv EXCEPT !.at = "answered", !.success = TRUE, !.cleanup_scheduled = TRUE]
    /\ UNCHANGED sessionVars

\* except Exception in analyze_test: cleanup_temp_dir(temp_dir), then the answer
RequestFails ==
    /\ drv.at = "raised"
    /\ drv' = [drv EXCEPT !.at = "answered", !.success = FALSE, !.temp_dir = "removed"]
    /\ UNCHANGED sessionVars

\* the background task cleanup_temp_dir runs after the answer
RequestCleanup ==
    /\ drv.cleanup_scheduled
    /\ drv.temp_dir = "exists"
    /\ drv' = [drv EXCEPT !.temp_dir = "removed"]
    /\ UNCHANGED sessionVars

NextRequest ==
    \/ RequestRejected
    \/ RequestAccepted
    \/ RequestVideoUnreadable
    \/ RequestVideoOpened
    \/ RequestFrame
    \/ RequestFrameRaises
    \/ RequestEndOfVideo
    \/ RequestReport
    \/ RequestReportRaises
    \/ RequestSucceeds
    \/ RequestFails
    \/ RequestCleanup

SpecRequest == InitRequest /\ [][NextRequest]_vars

MaxSignups == 2

SignupEmails == {"ann@example.org", "bob@example.org"}
SignupNames == {"ann"}
\* the numbers random.randint may give (10000..99999 in the code)
UserIdNumbers == {10000, 10001, 10002}
SignupEndpoints == {"signup_api", "google_register_api"}

InitSignup ==
    /\ NewAnalyzer
    /\ drv = [mode |-> "signup", users |-> {}, reqs |-> << >>]

\* the documents of drv.users with the given email, with the given _id
UsersByEmail(email) == {u \in drv.users : u.email = email}
UsersById(id) == {u \in drv.users : u.id = id}

\* request i moves to place at
SignupMoves(i, at) == drv' = [drv EXCEPT !.reqs[i].at = at]

\* a request arrives at one of the two endpoints
SignupReceived ==
    /\ Len(drv.reqs) < MaxSignups
    /\ \E ep \in SignupEndpoints, email \in SignupEmails, name \in SignupNames :
          drv' = [drv EXCEPT !.reqs = Append(@, [endpoint |-> ep, email |-> email,
                                                 username |-> name, at |-> "find_email",
                                                 user_id |-> <<>>])]
    /\ UNCHANGED sessionVars

\* if await db.user.find_one({"email": ...}): raise HTTPException(400)
SignupFindEmail ==
    /\ \E i \in 1..Len(drv.reqs) :
          /\ drv.reqs[i].at = "find_email"
          /\ SignupMoves(i, IF UsersByEmail(drv.reqs[i].email) # {}
                            THEN "rejected" ELSE "generate_userid")
    /\ UNCHANGED sessionVars

\* one turn of the loop of generate_userid: a random name, kept if no
\* document has it for _id
generate_userid ==
    /\ \E i \in 1..Len(drv.reqs), n \in UserIdNumbers :
          /\ drv.reqs[i].at = "generate_userid"
          /\ LET tempname == <<drv.reqs[i].username, n>> IN
             IF UsersById(tempname) # {}
             THEN UNCHANGED drv
             ELSE drv' = [drv EXCEPT !.reqs[i].at = "insert_one",
                                     !.reqs[i].user_id = tempname]
    /\ UNCHANGED sessionVars

\* await db.user.insert_one(user_doc): the collection refuses a second
\* document with the same _id, and the request fails
SignupInsertOne ==
    /\ \E i \in 1..Len(drv.reqs) :
          /\ drv.reqs[i].at = "insert_one"
          /\ IF UsersById(drv.reqs[i].user_id) # {}
             THEN SignupMoves(i, "failed")
             ELSE drv' = [drv EXCEPT !.reqs[i].at = "registered",
                                     !.users = @ \cup {[id |-> drv.reqs[i].user_id,
                                                        email |-> drv.reqs[i].email]}]
    /\ UNCHANGED sessionVars

NextSignup ==
    \/ SignupReceived
    \/ SignupFindEmail
    \/ generate_userid
    \/ SignupInsertOne

SpecSignup == InitSignup /\ [][NextSignup]_vars

MaxCalls == 3

\* the value None of the global, and the collection db['result']
NoCollection == "None"
ResultCollection == "db.result"

\* the endpoints of routes.py that read results_collection before anything else
GuardedEndpoints == {"download_analyzed_video", "get_user_test_results",
                     "get_test_result_details", "generate_workout_plan",
                     "download_report", "get_user_stats"}

\* routes.py has been imported: the global is None and the imported name
\* is bound to that None
InitStartup ==
    /\ NewAnalyzer
    /\ drv = [mode |-> "startup", utils_results_collection |-> NoCollection,
              routes_results_collection |-> NoCollection, startup |-> "pending",
              answers |-> << >>]

\* init_database with MONGO_URI set: it assigns the global of utils.py
init_database ==
    [drv EXCEPT !.utils_results_collection = ResultCollection, !.startup = "complete"]

\* startup_event: await init_database(); without MONGO_URI it raises ValueError
startup_event ==
    /\ drv.startup = "pending"
    /\ \E mongo_uri_set \in BOOLEAN :
          drv' = IF mongo_uri_set THEN init_database ELSE [drv EXCEPT !.startup = "failed"]
    /\ UNCHANGED sessionVars

\* the answer of an endpoint is appended to drv.answers
Answered(endpoint, answer) ==
    drv' = [drv EXCEPT !.answers = Append(@, [endpoint |-> endpoint, answer |-> answer])]

\* health_check: "database_connected": results_collection is not None
health_check ==
    /\ drv.startup = "complete"
    /\ Len(drv.answers) < MaxCalls
    /\ Answered("health_check",
                [database_connected |-> drv.routes_results_collection # NoCollection])
    /\ UNCHANGED sessionVars

\* if not results_collection: raise HTTPException(500, "Database not initialized")
GuardedEndpoint ==
    /\ drv.startup = "complete"
    /\ Len(drv.answers) < MaxCalls
    /\ \E ep \in GuardedEndpoints :
          Answered(ep, IF drv.routes_results_collection = NoCollection
                       THEN [status |-> 500, detail |-> "Database not initialized"]
                       ELSE [status |-> 200, detail |-> ""])
    /\ UNCHANGED sessionVars

NextStartup ==
    \/ startup_event
    \/ health_check
    \/ GuardedEndpoint

SpecStartup == InitStartup /\ [][NextStartup]_vars

\* C40: an endpoint called after init_database has completed sees the
\* database: health_check answers database_connected true and no guarded
\* endpoint answers "Database not initialized".
C40_EndpointsSeeDatabase ==
    drv.startup = "complete" =>
        \A i \in 1..Len(drv.answers) :
            IF drv.answers[i].endpoint = "health_check"
            THEN drv.answers[i].answer.database_connected
            ELSE drv.answers[i].answer.detail # "Database not initialized"

\* ---------------------------------------------------------------------
\* Properties of a session (Spec)
\* ---------------------------------------------------------------------
\* C3: for every exercise type, no step lowers rep_count: each step leaves it
\* unchanged or adds exactly 1.
C3_RepCountStepsByOne == [][rep_count' = rep_count \/ rep_count' = rep_count + 1]_vars

\* a rep has been counted and frames have been fed after it
C3_Witness ==
    /\ rep_count >= 1
    /\ rep_quality_scores # << >>
    /\ exercise_type \in {"SQUATS", "VERTICAL_JUMP"}
    /\ rep_phase # "at_top"

\* C4: once a frame has been processed, calculate_overall_score is within
\* [20,100] for the standing broad jump and within [30,100] for every other
\* exercise.
C4_ScoreWithinClamp ==
    metrics_history # << >> =>
        /\ ScoreAtMost(calculate_overall_score, 100)
        /\ IF exercise_type = "STANDING_BROAD_JUMP"
           THEN ScoreAtLeast(calculate_overall_score, 20)
           ELSE ScoreAtLeast(calculate_overall_score, 30)

\* the fields of a report that are computed from the session state alone
StateDerived(r) ==
    [ReportContents(r) EXCEPT !.duration = 0, !.date = 0, !.ai_analysis = NoSummary]

C6_ReportReadsOnly ==
    [][Len(reports') = Len(reports) + 1 =>
           UNCHANGED <<rep_count, rep_phase, feedback_history, metrics_history, form_errors,
                       rep_quality_scores, jump_distances, best_distance, jump_attempts>>]_vars

\* a report made of a session with frames, form errors and a counted rep
C6_Witness ==
    /\ reports # << >>
    /\ reports[Len(reports)].rep_count >= 1
    /\ reports[Len(reports)].total_frames >= 3
    /\ \E k \in FormErrorKeys : form_errors[k] > 0

\* C10: the histories hold one entry per frame fed, frames without landmarks
\* included.
C10_OneEntryPerFrame ==
    Len(feedback_history) = frames_fed /\ Len(metrics_history) = frames_fed

\* C11: a frame processed before an exercise type is selected is rejected: as
\* long as no exercise is selected, nothing is appended to feedback_history or
\* metrics_history.
C11_UnselectedFrameRejected ==
    exercise_type = NoExercise => feedback_history = << >> /\ metrics_history = << >>

\* C12: a report made of a session with no frame in its histories has an
\* overall score of zero, whatever the exercise type.
C12_ZeroFramesZeroScore ==
    \A i \in 1..Len(reports) :
        reports[i].total_frames = 0 => reports[i].overall_score.num = 0

\* C14: every step leaves the two histories of equal length, keeps all their
\* earlier entries and adds at most one entry to each.
C14_HistoriesAppendOnly ==
    [][/\ Len(feedback_history') = Len(metrics_history')
       /\ Len(feedback_history') \in {Len(feedback_history), Len(feedback_history) + 1}
       /\ SubSeq(feedback_history', 1, Len(feedback_history)) = feedback_history
       /\ SubSeq(metrics_history', 1, Len(metrics_history)) = metrics_history]_vars

\* frames with landmarks and a frame without have been processed
C14_Witness ==
    /\ Len(feedback_history) >= 3
    /\ Len(metrics_history) = Len(feedback_history)
    /\ frames_fed > Len(feedback_history)
    /\ feedback_history[1] # feedback_history[3]

\* C15: in a session of any exercise type of the enumeration, every entry of
\* feedback_history is a non-empty feedback text.
C15_FeedbackNeverEmpty ==
    exercise_type \in ExerciseType =>
        \A i \in 1..Len(feedback_history) : feedback_history[i] # << >>

\* C18: the full per-frame feedback history read in a report has one entry for
\* every entry of feedback_history.
C18_FullHistoryPerFrame ==
    \A i \in 1..Len(reports) :
        Len(ReportContents(reports[i]).full_feedback_history) = Len(feedback_history)

\* the initial phase the state machines list for each exercise
ListedInitialPhase(e) ==
    CASE e \in {"SQUATS", "PUSHUPS"} -> "at_top"
      [] e = "SITUPS" -> "at_bottom"
      [] e = "VERTICAL_JUMP" -> "at_baseline"
      [] e = "STANDING_BROAD_JUMP" -> "calibrating"
      [] e = "PLANK_HOLD" -> "not_holding"
      [] e = "SHUTTLE_RUN" -> "at_start"
      [] OTHER -> rep_phase

\* C20: right after set_exercise_type, before any frame, the phase is the
\* initial state listed for the selected exercise.
C20_ListedInitialPhase ==
    (exercise_type # NoExercise /\ frames_fed = 0) =>
        rep_phase = ListedInitialPhase(exercise_type)

\* C29: the grade of a report is A when its overall score is at least 85, B
\* when it is at least 70 and below 85, C when it is at least 50 and below 70,
\* and D when it is below 50.
C29_GradeByThresholds ==
    \A i \in 1..Len(reports) :
        LET score == reports[i].overall_score
            grade == reports[i].grade
        IN  /\ grade = "A" <=> ScoreAtLeast(score, 85)
            /\ grade = "B" <=> (ScoreAtLeast(score, 70) /\ ~ScoreAtLeast(score, 85))
            /\ grade = "C" <=> (ScoreAtLeast(score, 50) /\ ~ScoreAtLeast(score, 70))
            /\ grade = "D" <=> ~ScoreAtLeast(score, 50)

\* a report graded C on a score of exactly 50
C29_Witness ==
    /\ reports # << >>
    /\ reports[1].grade = "C"
    /\ reports[1].overall_score.num = 50 * reports[1].overall_score.den

\* C37: in a session of a composite-scored exercise with a frame in its
\* history the overall score is at least 60, above the lower clamp of 30,
\* and no report has grade D.
C37_CompositeAtLeastSixty ==
    (exercise_type \notin {NoExercise, "STANDING_BROAD_JUMP"} /\ metrics_history # << >>) =>
        /\ ScoreAtLeast(calculate_overall_score, 60)
        /\ \A i \in 1..Len(reports) :
              /\ ScoreAtLeast(reports[i].overall_score, 60)
              /\ reports[i].grade # "D"

\* a report of a session with no rep counted and no frame counted as
\* positive: the score is 65 or less and the grade is C
C37_Witness ==
    /\ exercise_type \notin {NoExercise, "STANDING_BROAD_JUMP"}
    /\ metrics_history # << >>
    /\ rep_count = 0
    /\ CorrectFrames(feedback_history, ScorePositiveMsgs) = 0
    /\ reports # << >>
    /\ ScoreAtMost(reports[1].overall_score, 65)
    /\ reports[1].grade = "C"

\* C38: generate_comprehensive_report and calculate_overall_score count the
\* same feedback lines as positive, so the form accuracy of a report is 100
\* times the form accuracy term of the score: the two counts of positive
\* frames are equal.
C38_SameFormAccuracy ==
    /\ \A i \in 1..Len(feedback_history) :
          HasKeyword(feedback_history[i], ReportPositiveMsgs)
              <=> HasKeyword(feedback_history[i], ScorePositiveMsgs)
    /\ \A i \in 1..Len(reports) :
          reports[i].correct_frames = CorrectFrames(feedback_history, ScorePositiveMsgs)

====
